---- MODULE Spec2Model ----
(***************************************************************************)
(* State-machine model of the NikyClean quote pipelines: the FAST fetch of *)
(* the live_session variants, the chunked module fetch of Stock_Data_A,    *)
(* the per-ticker fetch of update_one / Stock_Data_complete404, and the    *)
(* thread-pool drivers of GetYahooData and dataloader; the atomic_save of   *)
(* the table loaders and the transaction editors of the TRADES workbook    *)
(* (trades_gui_tabtrans, trades_extended_gui).                             *)
(*                                                                         *)
(* Each script is a run-to-completion job.  Every script has its own       *)
(* specification (Init of that script, Next of that script); the variables *)
(* of the other scripts stay at their idle values.                         *)
(***************************************************************************)
EXTENDS Integers, Sequences, FiniteSets, TLC

VARIABLES
    pc,          \* position of the running script
    tickers,     \* the loaded ticker list (input order, as read_tickers returns it)
    result_rows, \* the rows of the returned / written table, in order
    script,      \* the script that is running
    \* live_session family
    variant,     \* which source file of the family is running
    raw_price,   \* tq.price as the provider returned it
    raw_sd,      \* tq.summary_detail as the provider returned it
    \* Stock_Data_A
    chunk_start, \* index in tickers of the first ticker of the current chunk
    mod,         \* position in Modules of the module being fetched
    attempt,     \* fetch_with_retry: the attempt about to be made
    last_error,  \* fetch_with_retry: last_error
    data,        \* price_data, summary_data, calendar_data, financial_data
    err,         \* err_price, err_summary, err_calendar, err_financial
    calls,       \* history: getter calls made per module for the current chunk
    unknown,     \* the symbols the provider has no quote for
    faults,      \* history: provider faults so far in the run
    fetched,     \* history: per finished chunk, what its module fetches returned
    outcomes,    \* history: per module, the outcome of each getter call so far
    frames,      \* Stock_Data_A_RetrySafe: price_frames .. financial_frames
    \* update_one / Stock_Data_complete404
    tick,        \* index in tickers of the ticker being fetched
    row,         \* the row dict being built for that ticker
    full,        \* tk.info of that ticker ({} when it raised or is skipped)
    primary,     \* history: the row as fast_info / info / calendar left it
    \* GetYahooData / dataloader
    futures,     \* the submitted fetches, in submission order
    completion,  \* history: the order in which as_completed yielded them
    results_map, \* GetYahooData: results_map, in insertion order
    df_fast,     \* dataloader: the FAST frame
    ext_rows,    \* dataloader: ext_rows
    \* main of the live_session family
    workbook,    \* the input workbook as found on disk
    loaded,      \* what read_tickers returned
    slow,        \* the --slow flag
    raw_cal,     \* tq.calendar_events: per symbol, what the provider returned
    written,     \* the output workbook: whether it was saved, and its rows
    fetches,     \* history: provider queries made so far
    error,       \* the exception that ended the run and what its message names
    \* the TRADES workbook tools
    files,       \* atomic_save: the content of final_path and of the temporary file
    book,        \* atomic_save: the workbook in memory, as the blocks wb.save writes
    sheet,       \* the data rows of the Transactions sheet, top-down
    tbl_ref,     \* trades_gui_tabtrans: max_row of the table range TabTrans
    last_deleted_entry,  \* trades_extended_gui: the undo slot
    ops          \* history: the last operations and the sheet before them

varsLS == <<variant, raw_price, raw_sd>>
varsSA ==
    <<chunk_start, mod, attempt, last_error, data, err, calls, unknown, faults,
      fetched, outcomes, frames>>

varsU == <<tick, row, full, primary>>
varsTP == <<futures, completion, results_map, df_fast, ext_rows>>

varsMain == <<workbook, loaded, slow, raw_cal, written, fetches, error>>

varsXL == <<files, book, sheet, tbl_ref, last_deleted_entry, ops>>

vars ==
    <<pc, tickers, result_rows, script, varsLS, varsSA, varsU, varsTP, varsMain,
      varsXL>>

\* the values a script's variables keep while another script runs
IdleLS == variant = "" /\ raw_price = <<>> /\ raw_sd = <<>>
IdleSA ==
    /\ chunk_start = 0 /\ mod = 0 /\ attempt = 0 /\ last_error = ""
    /\ data = <<>> /\ err = <<>> /\ calls = <<>> /\ unknown = {} /\ faults = 0
    /\ fetched = <<>> /\ outcomes = <<>> /\ frames = <<>>

IdleU == tick = 0 /\ row = <<>> /\ full = <<>> /\ primary = <<>>
IdleTP ==
    /\ futures = <<>> /\ completion = <<>> /\ results_map = <<>>
    /\ df_fast = <<>> /\ ext_rows = <<>>

\* no output workbook yet; no exception yet
NoOutput == [saved |-> FALSE, rows |-> <<>>]
NoError == [raised |-> "", names |-> {}]

IdleMain ==
    /\ workbook = <<>> /\ loaded = <<>> /\ slow = FALSE /\ raw_cal = <<>>
    /\ written = NoOutput /\ fetches = 0 /\ error = NoError

IdleXL ==
    /\ files = <<>> /\ book = <<>> /\ sheet = <<>> /\ tbl_ref = 0
    /\ last_deleted_entry = <<>> /\ ops = <<>>

\* the variables each script leaves alone
otherLS == <<script, varsSA, varsU, varsTP, varsMain, varsXL>>
otherSA == <<script, varsLS, varsU, varsTP, varsMain, varsXL>>
otherU == <<script, varsLS, varsSA, varsTP, varsMain, varsXL>>
otherTP == <<script, varsLS, varsSA, varsU, varsMain, varsXL>>
otherMain == <<script, varsSA, varsU, varsTP, varsXL>>
otherXL ==
    <<tickers, result_rows, varsLS, varsSA, varsU, varsTP, varsMain>>

-----------------------------------------------------------------------------
(* Bounds of the model *)

MaxTickers == 3

\* longest ticker list of a chunked run (Stock_Data_A)
MaxChunkedTickers == 3

\* provider faults (a failed call, a known ticker missing from or malformed in
\* a returned mapping) a run of Stock_Data_A may meet
MaxFaults == 2

-----------------------------------------------------------------------------
(* Python values.  Every value is a record of one shape, so that any two   *)
(* values can be compared: k is the Python type, n/d a rational number     *)
(* (floats are modelled as exact decimal fractions), s the text.           *)

Val(k, n, d, s) == [k |-> k, n |-> n, d |-> d, s |-> s]
None == Val("none", 0, 1, "")
Absent == Val("absent", 0, 1, "")          \* key not in the dict
Num(n, d) == Val("num", n, d, "")
Str(s) == Val("str", 0, 1, s)

IsNum(v) == v.k = "num"
Abs(i) == IF i < 0 THEN -i ELSE i

\* Python truthiness: None, 0, 0.0 and "" are falsy.
Truthy(v) ==
    CASE v.k = "num" -> v.n # 0
      [] v.k = "str" -> v.s # ""
      [] v.k = "datetime" -> TRUE
      [] v.k = "list" -> v.n # 0
      [] OTHER -> FALSE

\* a or b
PyOr(a, b) == IF Truthy(a) THEN a ELSE b

\* d.get(key): None for a key that is not in the dict
DictGet(fm, key) == IF fm[key].k = "absent" THEN None ELSE fm[key]

\* equality of two numbers as rationals
RatEq(a, b) == a.n * b.d = b.n * a.d

-----------------------------------------------------------------------------
(* live_session family: provider field names and the FAST table *)

ProviderKeys ==
    { "regularMarketPreviousClose", "previousClose", "regularMarketOpen",
      "regularMarketPrice", "postMarketPrice", "preMarketPrice",
      "regularMarketDayLow", "regularMarketDayHigh", "trailingPE", "forwardPE",
      "regularMarketChange", "postMarketChange", "preMarketChange",
      "regularMarketChangePercent", "postMarketChangePercent",
      "preMarketChangePercent", "regularMarketVolume", "averageVolume",
      "averageDailyVolume10Day", "averageDailyVolume3Month",
      "regularMarketTime", "postMarketTime", "preMarketTime" }

EmptyDict == [key \in ProviderKeys |-> Absent]

FAST_COLS ==
    { "Ticker", "RefreshTime", "Close", "Open", "Last", "Low", "High", "P/E",
      "Change", "ChangePct", "Volume", "VolumeAverage" }

\* live_session_BEST.py has no RefreshTime column
FAST_COLS_BEST == FAST_COLS \ {"RefreshTime"}

Symbols == {"A", "B"}

\* A module response is a dict keyed by symbol or, on a provider error, a
\* string.  The value under a symbol is a field dict, an error string, or the
\* symbol is absent.
DictEntry(fm) == [kind |-> "dict", fm |-> fm]
StrEntry == [kind |-> "str", fm |-> EmptyDict]
AbsentEntry == [kind |-> "absent", fm |-> EmptyDict]

\* _get_dict(block, key) of live_session.py
_get_dict(block, key) ==
    IF block.kind # "dict" THEN EmptyDict
    ELSE IF block.map[key].kind = "dict" THEN block.map[key].fm ELSE EmptyDict

\* _first(d, *keys): the first key present with a value that is not None
_first(d, keys) ==
    LET hit == {i \in DOMAIN keys : d[keys[i]].k \notin {"absent", "none"}}
    IN  IF hit = {} THEN None
        ELSE d[keys[CHOOSE i \in hit : \A j \in hit : i <= j]]

-----------------------------------------------------------------------------
(* fetch_fast: the row of one symbol *)

\* NormalizePct with the sign test lost (x > 1 instead of abs(x) > 1)
NormalizePct_NoAbs(v) ==
    IF v.k = "none" THEN v
    ELSE IF IsNum(v) /\ v.n > v.d THEN Num(v.n, v.d * 100)
    ELSE v

\* NormalizePct dividing by 10 instead of 100
NormalizePct_Div10(v) ==
    IF v.k = "none" THEN v
    ELSE IF IsNum(v) /\ Abs(v.n) > v.d THEN Num(v.n, v.d * 10)
    ELSE v

\* The percent normalisation of ChangePct: abs() of a non-number raises and
\* the except clause keeps the value as it was.
NormalizePct(v) ==
    IF v.k = "none" THEN v
    ELSE IF IsNum(v) /\ Abs(v.n) > v.d THEN Num(v.n, v.d * 100)
    ELSE v

\* datetime.fromtimestamp of a number; a number outside the platform's range
\* (modelled as d = 0) raises and gives None.
FromTimestamp(v) ==
    IF IsNum(v) THEN (IF v.d = 0 THEN None ELSE Val("datetime", v.n, v.d, ""))
    ELSE None

\* _epoch_to_datetime of live_session_Strip.py
_epoch_to_datetime(ts) ==
    IF ts.k = "none" \/ (ts.k = "str" /\ ts.s = "") \/ (IsNum(ts) /\ ts.n = 0)
        THEN None
    ELSE IF IsNum(ts) /\ ts.d # 0 THEN Val("datetime", ts.n, ts.d, "")
    ELSE None

\* live_session.py: change_pct as resolved, before the percent normalisation
ChangePctRaw(p, d) ==
    PyOr(_first(p, <<"regularMarketChangePercent", "postMarketChangePercent",
                     "preMarketChangePercent">>),
         _first(d, <<"regularMarketChangePercent">>))

\* live_session.py: the loop body that fills rows_by_symbol[s]
RowLiveSession(s, p, d) ==
    LET close == PyOr(_first(d, <<"regularMarketPreviousClose", "previousClose">>),
                      _first(p, <<"regularMarketPreviousClose", "previousClose">>))
        open_ == PyOr(_first(d, <<"regularMarketOpen">>),
                      _first(p, <<"regularMarketOpen">>))
        last == PyOr(_first(p, <<"regularMarketPrice", "postMarketPrice",
                                 "preMarketPrice">>),
                     _first(d, <<"regularMarketPrice">>))
        low == PyOr(_first(d, <<"regularMarketDayLow">>),
                    _first(p, <<"regularMarketDayLow">>))
        high == PyOr(_first(d, <<"regularMarketDayHigh">>),
                     _first(p, <<"regularMarketDayHigh">>))
        pe == PyOr(_first(d, <<"trailingPE">>), _first(p, <<"trailingPE">>))
        change == PyOr(_first(p, <<"regularMarketChange", "postMarketChange",
                                   "preMarketChange">>),
                       _first(d, <<"regularMarketChange">>))
        change_pct == ChangePctRaw(p, d)
        volume == PyOr(_first(p, <<"regularMarketVolume">>),
                       _first(d, <<"regularMarketVolume">>))
        volavg == PyOr(_first(d, <<"averageVolume", "averageDailyVolume10Day">>),
                       _first(p, <<"averageVolume">>))
        rt_ts == PyOr(_first(p, <<"regularMarketTime", "postMarketTime",
                                  "preMarketTime">>),
                      _first(d, <<"regularMarketTime">>))
    IN  [col \in FAST_COLS |->
            CASE col = "Ticker" -> Str(s)
              [] col = "RefreshTime" -> FromTimestamp(rt_ts)
              [] col = "Close" -> close
              [] col = "Open" -> open_
              [] col = "Last" -> last
              [] col = "Low" -> low
              [] col = "High" -> high
              [] col = "P/E" -> pe
              [] col = "Change" -> change
              [] col = "ChangePct" -> NormalizePct(change_pct)
              [] col = "Volume" -> volume
              [] col = "VolumeAverage" -> volavg]

\* live_session_BEST.py: the loop body that fills rows[s]
RowBEST(s, p, d) ==
    LET G(fm1, fm2, key) == PyOr(DictGet(fm1, key), DictGet(fm2, key))
    IN  [col \in FAST_COLS_BEST |->
            CASE col = "Ticker" -> Str(s)
              [] col = "Close" -> G(d, p, "regularMarketPreviousClose")
              [] col = "Open" -> G(d, p, "regularMarketOpen")
              [] col = "Last" -> G(p, d, "regularMarketPrice")
              [] col = "Low" -> G(d, p, "regularMarketDayLow")
              [] col = "High" -> G(d, p, "regularMarketDayHigh")
              [] col = "P/E" -> G(d, p, "trailingPE")
              [] col = "Change" -> G(d, p, "regularMarketChange")
              [] col = "ChangePct" ->
                    NormalizePct(G(d, p, "regularMarketChangePercent"))
              [] col = "Volume" -> G(d, p, "regularMarketVolume")
              [] col = "VolumeAverage" -> G(d, p, "averageVolume")]

\* live_session_Strip.py: the row appended for a non-blank raw_ticker
RowStrip(raw_ticker, p, sd) ==
    LET pe0 == DictGet(sd, "trailingPE")
        pe == IF pe0.k = "none" THEN DictGet(sd, "forwardPE") ELSE pe0
        vol_avg == PyOr(PyOr(DictGet(sd, "averageVolume"),
                             DictGet(sd, "averageDailyVolume3Month")),
                        DictGet(sd, "averageDailyVolume10Day"))
    IN  [col \in FAST_COLS |->
            CASE col = "Ticker" -> Str(raw_ticker)
              [] col = "RefreshTime" ->
                    _epoch_to_datetime(DictGet(p, "regularMarketTime"))
              [] col = "Close" -> DictGet(p, "regularMarketPreviousClose")
              [] col = "Open" -> DictGet(p, "regularMarketOpen")
              [] col = "Last" -> DictGet(p, "regularMarketPrice")
              [] col = "Low" -> DictGet(p, "regularMarketDayLow")
              [] col = "High" -> DictGet(p, "regularMarketDayHigh")
              [] col = "P/E" -> pe
              [] col = "Change" -> DictGet(p, "regularMarketChange")
              [] col = "ChangePct" -> DictGet(p, "regularMarketChangePercent")
              [] col = "Volume" -> DictGet(p, "regularMarketVolume")
              [] col = "VolumeAverage" -> vol_avg]

\* The row of a blank input entry: live_session.py writes Ticker "", the
\* other two variants leave Ticker None.
BlankRow(v) ==
    IF v = "live_session" THEN [col \in FAST_COLS |->
                                   IF col = "Ticker" THEN Str("") ELSE None]
    ELSE IF v = "BEST" THEN [col \in FAST_COLS_BEST |-> None]
    ELSE [col \in FAST_COLS |-> None]

\* The row of a non-blank input entry t
SymbolRow(v, t, price, sd) ==
    IF v = "live_session"
        THEN RowLiveSession(t, _get_dict(price, t), _get_dict(sd, t))
    ELSE IF v = "BEST" THEN RowBEST(t, _get_dict(price, t), _get_dict(sd, t))
    ELSE RowStrip(t, _get_dict(price, t), _get_dict(sd, t))

\* syms = [t for t in tickers if t]
NonBlank(seq) == SelectSeq(seq, LAMBDA t : t # "")

\* the final loop over the input list: one row per input entry
FastTable(v, tks, price, sd) ==
    [i \in 1..Len(tks) |->
        IF tks[i] = "" THEN BlankRow(v) ELSE SymbolRow(v, tks[i], price, sd)]

Variants == {"live_session", "BEST", "Strip"}

\* BEST and Strip call .get on the module response itself, which raises
\* AttributeError when the provider returned a string.
FetchFastRaises(v, price, sd) ==
    v \in {"BEST", "Strip"} /\ (price.kind = "str" \/ sd.kind = "str")

\* fetch_fast, no non-blank ticker: the early return of an empty table
FetchFastEmpty ==
    /\ pc = "fetch_fast"
    /\ NonBlank(tickers) = <<>>
    /\ result_rows' = <<>>
    /\ pc' = "done"
    /\ UNCHANGED <<tickers, variant, raw_price, raw_sd, otherLS>>

\* fetch_fast with at least one symbol: query, per-symbol rows, final loop
FetchFastTable ==
    /\ pc = "fetch_fast"
    /\ NonBlank(tickers) # <<>>
    /\ ~FetchFastRaises(variant, raw_price, raw_sd)
    /\ result_rows' = FastTable(variant, tickers, raw_price, raw_sd)
    /\ pc' = "done"
    /\ UNCHANGED <<tickers, variant, raw_price, raw_sd, otherLS>>

\* fetch_fast propagates the AttributeError: no table is returned
FetchFastError ==
    /\ pc = "fetch_fast"
    /\ NonBlank(tickers) # <<>>
    /\ FetchFastRaises(variant, raw_price, raw_sd)
    /\ pc' = "raised"
    /\ UNCHANGED <<tickers, variant, raw_price, raw_sd, result_rows, otherLS>>

NextLiveSession == FetchFastEmpty \/ FetchFastTable \/ FetchFastError

-----------------------------------------------------------------------------
(* live_session family: the inputs of a run *)

\* every list of at most MaxTickers entries over S
SeqsUpTo(S, n) == UNION {[1..k -> S] : k \in 0..n}

\* what read_tickers can return: symbols and blank entries, duplicates allowed
TickerLists == SeqsUpTo(Symbols \cup {""}, MaxTickers)

SampleQuote ==
    [EmptyDict EXCEPT !["regularMarketPrice"] = Num(5, 1),
                      !["regularMarketPreviousClose"] = Num(4, 1)]

SampleEntries == {AbsentEntry, StrEntry, DictEntry(EmptyDict), DictEntry(SampleQuote)}

StrResponse == [kind |-> "str", map |-> [s \in Symbols |-> AbsentEntry]]
DictResponse(m) == [kind |-> "dict", map |-> m]

Responses == {StrResponse} \cup {DictResponse(m) : m \in [Symbols -> SampleEntries]}

\* The candidate order of live_session.py, per output column: the (module,
\* provider field) pairs in the order the code consults them.
Candidates(col) ==
    CASE col = "Close" -> << <<"sd", "regularMarketPreviousClose">>,
                             <<"sd", "previousClose">>,
                             <<"price", "regularMarketPreviousClose">>,
                             <<"price", "previousClose">> >>
      [] col = "Open" -> << <<"sd", "regularMarketOpen">>,
                            <<"price", "regularMarketOpen">> >>
      [] col = "Last" -> << <<"price", "regularMarketPrice">>,
                            <<"price", "postMarketPrice">>,
                            <<"price", "preMarketPrice">>,
                            <<"sd", "regularMarketPrice">> >>
      [] col = "Low" -> << <<"sd", "regularMarketDayLow">>,
                           <<"price", "regularMarketDayLow">> >>
      [] col = "High" -> << <<"sd", "regularMarketDayHigh">>,
                            <<"price", "regularMarketDayHigh">> >>
      [] col = "P/E" -> << <<"sd", "trailingPE">>, <<"price", "trailingPE">> >>
      [] col = "Change" -> << <<"price", "regularMarketChange">>,
                              <<"price", "postMarketChange">>,
                              <<"price", "preMarketChange">>,
                              <<"sd", "regularMarketChange">> >>
      [] col = "ChangePct" -> << <<"price", "regularMarketChangePercent">>,
                                 <<"price", "postMarketChangePercent">>,
                                 <<"price", "preMarketChangePercent">>,
                                 <<"sd", "regularMarketChangePercent">> >>
      [] col = "Volume" -> << <<"price", "regularMarketVolume">>,
                              <<"sd", "regularMarketVolume">> >>
      [] col = "VolumeAverage" -> << <<"sd", "averageVolume">>,
                                     <<"sd", "averageDailyVolume10Day">>,
                                     <<"price", "averageVolume">> >>
      [] col = "RefreshTime" -> << <<"price", "regularMarketTime">>,
                                   <<"price", "postMarketTime">>,
                                   <<"price", "preMarketTime">>,
                                   <<"sd", "regularMarketTime">> >>

DataCols == FAST_COLS \ {"Ticker"}

\* raw values a provider field can carry
FieldVals == {Absent, None, Num(0, 1), Num(1, 1), Num(2, 1), Str("N/A")}
PctVals ==
    {Absent, None, Num(0, 1), Num(23, 1000), Num(23, 10), Num(-150, 1),
     Num(50, 1), Num(100, 1), Num(1, 1), Num(-1, 1), Str("N/A")}

ValsOf(col) == IF col = "ChangePct" THEN PctVals ELSE FieldVals

\* the field dict of module mod that carries vals on the candidates of col
FocusDict(modname, col, vals) ==
    [key \in ProviderKeys |->
        IF \E i \in DOMAIN vals : Candidates(col)[i] = <<modname, key>>
            THEN vals[CHOOSE i \in DOMAIN vals : Candidates(col)[i] = <<modname, key>>]
        ELSE Absent]

\* Runs over ticker lists with blanks and duplicates, coarse provider data
InitRows ==
    /\ pc = "fetch_fast"
    /\ variant \in Variants
    /\ tickers \in TickerLists
    /\ raw_price \in Responses
    /\ raw_sd \in Responses
    /\ result_rows = <<>>

\* Runs of live_session.py over one symbol, with every combination of raw
\* values on the candidates of one output column
InitFields ==
    /\ pc = "fetch_fast"
    /\ variant = "live_session"
    /\ tickers = <<"A">>
    /\ \E col \in DataCols :
        \E vals \in [DOMAIN Candidates(col) -> ValsOf(col)] :
            /\ raw_price = DictResponse([s \in Symbols |->
                    IF s = "A" THEN DictEntry(FocusDict("price", col, vals))
                    ELSE AbsentEntry])
            /\ raw_sd = DictResponse([s \in Symbols |->
                    IF s = "A" THEN DictEntry(FocusDict("sd", col, vals))
                    ELSE AbsentEntry])
    /\ result_rows = <<>>

InitLiveSession ==
    /\ InitRows \/ InitFields
    /\ script = "live_session"
    /\ IdleSA /\ IdleU /\ IdleTP /\ IdleMain /\ IdleXL

SpecLiveSession == InitLiveSession /\ [][NextLiveSession]_vars

-----------------------------------------------------------------------------
(* live_session family: properties *)

\* the text of a Ticker cell: None and "" are both the empty cell
TickerText(v) == IF v.k = "str" THEN v.s ELSE ""

\* C1: whenever fetch_fast returns a table, it has one row per input entry
\* and row i carries the ticker of input position i (empty for a blank).
C1_OneRowPerInput ==
    pc = "done" =>
        /\ Len(result_rows) = Len(tickers)
        /\ \A i \in 1..Len(tickers) :
              TickerText(result_rows[i]["Ticker"]) = tickers[i]

\* the first candidate of col, in candidate order, that is present and not None
FirstNonNull(col, p, d) ==
    LET c == Candidates(col)
        at(i) == IF c[i][1] = "price" THEN p[c[i][2]] ELSE d[c[i][2]]
        hit == {i \in DOMAIN c : at(i).k \notin {"absent", "none"}}
    IN  IF hit = {} THEN None
        ELSE at(CHOOSE i \in hit : \A j \in hit : i <= j)

\* the conversion fetch_fast applies to the resolved raw value of a column
Converted(col, v) ==
    IF col = "ChangePct" THEN NormalizePct(v)
    ELSE IF col = "RefreshTime" THEN FromTimestamp(v)
    ELSE v

\* C2: in live_session.py every output column of a symbol's row is resolved
\* from the first non-null candidate of its fixed candidate order, whatever
\* the value of that candidate (0 included).
C2_FirstNonNullWins ==
    (pc = "done" /\ variant = "live_session") =>
        \A i \in 1..Len(result_rows) :
            tickers[i] # "" =>
                \A col \in DataCols :
                    result_rows[i][col] =
                        Converted(col, FirstNonNull(col,
                                        _get_dict(raw_price, tickers[i]),
                                        _get_dict(raw_sd, tickers[i])))

\* the rows of live_session.py whose resolved raw ChangePct is a number
PctRows ==
    {i \in 1..Len(result_rows) :
        /\ tickers[i] # ""
        /\ IsNum(ChangePctRaw(_get_dict(raw_price, tickers[i]),
                              _get_dict(raw_sd, tickers[i])))}

RawPct(i) ==
    ChangePctRaw(_get_dict(raw_price, tickers[i]), _get_dict(raw_sd, tickers[i]))

\* C3: a numeric raw ChangePct of magnitude at most 1 is written unchanged,
\* one of magnitude above 1 is written divided by 100, whatever its sign.
C3_PercentNormalization ==
    (pc = "done" /\ variant = "live_session") =>
        \A i \in PctRows :
            LET x == RawPct(i)
                y == result_rows[i]["ChangePct"]
            IN  /\ IsNum(y)
                /\ Abs(x.n) <= x.d => y = x
                /\ Abs(x.n) > x.d => RatEq(y, Num(x.n, x.d * 100))

\* C3 witness: -150.0 was written as -1.5, 2.3 as 0.023 or 0.023 unchanged
C3_Witness ==
    /\ pc = "done" /\ variant = "live_session"
    /\ \E i \in PctRows :
          /\ RawPct(i) = Num(-150, 1)
          /\ RatEq(result_rows[i]["ChangePct"], Num(-3, 2))

\* C4 as stated: normalising the written ChangePct once more changes nothing,
\* for every numeric raw value.
C4_IdempotentEverywhere ==
    (pc = "done" /\ variant = "live_session") =>
        \A i \in PctRows :
            NormalizePct(result_rows[i]["ChangePct"]) = result_rows[i]["ChangePct"]

\* C4 amended: normalising the written ChangePct once more changes nothing
\* when the raw value has magnitude at most 100.
C4_IdempotentUpTo100 ==
    (pc = "done" /\ variant = "live_session") =>
        \A i \in PctRows :
            Abs(RawPct(i).n) <= 100 * RawPct(i).d =>
                NormalizePct(result_rows[i]["ChangePct"])
                    = result_rows[i]["ChangePct"]

\* C4 witness: a raw value above 1 was divided and the result is stable
C4_Witness ==
    /\ pc = "done" /\ variant = "live_session"
    /\ \E i \in PctRows :
          /\ RawPct(i) = Num(50, 1)
          /\ RatEq(result_rows[i]["ChangePct"], Num(1, 2))
          /\ NormalizePct(result_rows[i]["ChangePct"]) = result_rows[i]["ChangePct"]

\* the raw timestamp live_session.py resolves for input position i
RawTime(i) ==
    LET p == _get_dict(raw_price, tickers[i])
        d == _get_dict(raw_sd, tickers[i])
    IN  PyOr(_first(p, <<"regularMarketTime", "postMarketTime", "preMarketTime">>),
             _first(d, <<"regularMarketTime">>))

\* C17: in fetch_fast of live_session.py a raw ChangePct that is not a
\* number, or a raw RefreshTime that is not a timestamp, gives an empty
\* (None) field in that row, and every ticker still gets its row.
C17_ParseFailureGivesNone ==
    (pc = "done" /\ variant = "live_session" /\ NonBlank(tickers) # <<>>) =>
        /\ Len(result_rows) = Len(tickers)
        /\ \A i \in 1..Len(result_rows) :
              tickers[i] # "" =>
                  /\ ~IsNum(RawPct(i)) => result_rows[i]["ChangePct"] = None
                  /\ ~IsNum(RawTime(i)) => result_rows[i]["RefreshTime"] = None

\* C17, the RefreshTime half alone
C17_BadTimestampGivesNone ==
    (pc = "done" /\ variant = "live_session" /\ NonBlank(tickers) # <<>>) =>
        \A i \in 1..Len(result_rows) :
            (tickers[i] # "" /\ ~IsNum(RawTime(i))) =>
                result_rows[i]["RefreshTime"] = None

-----------------------------------------------------------------------------
(* Stock_Data_A: chunked fetch of four modules with retry, one row per ticker *)

\* CHUNK_SIZE is 20 in the source; the model runs the same loops with a
\* smaller chunk so that a short ticker list spans several chunks.
CHUNK_SIZE == 2
MAX_RETRIES == 2

\* the four module fetches of a chunk, in the order the code makes them
Modules == <<"price", "summary", "calendar", "financial">>
ModuleSet == {Modules[i] : i \in DOMAIN Modules}

\* str(data) of a returned payload that is not a dict, and str(e) of a raised
\* exception (which may be empty)
PayloadTexts == {"Too Many Requests"}
ExceptionTexts == {""}

\* the value a returned mapping holds for a ticker
EntryKinds == {"dict", "str", "absent"}

NoneData == [kind |-> "none", map |-> [s \in Symbols |-> "absent"]]
DictData(m) == [kind |-> "dict", map |-> m]

\* field names of the provider's module dicts: one of each module, and
\* maxAge, which every module dict carries
SAKeys == {"regularMarketPrice", "dividendYield", "earningsDate",
           "targetMeanPrice", "maxAge"}

OwnKey(m) ==
    CASE m = "price" -> "regularMarketPrice"
      [] m = "summary" -> "dividendYield"
      [] m = "calendar" -> "earningsDate"
      [] m = "financial" -> "targetMeanPrice"

\* the field dict a module holds for a ticker it knows
ModuleFields(m) ==
    [key \in SAKeys |->
        IF key = OwnKey(m) \/ key = "maxAge" THEN Str(m) ELSE Absent]

NoFields == [key \in SAKeys |-> Absent]

\* chunked(tickers, CHUNK_SIZE): the chunk that starts at index start
ChunkEnd(start) ==
    IF start + CHUNK_SIZE - 1 < Len(tickers) THEN start + CHUNK_SIZE - 1
    ELSE Len(tickers)
Chunk(start) == SubSeq(tickers, start, ChunkEnd(start))
ChunkSyms(start) == {tickers[i] : i \in start..ChunkEnd(start)}

\* fetch_with_retry gives up after the attempt numbered MAX_RETRIES
LastAttempt_NoRetry(a) == a >= 1

LastAttempt(a) == a >= MAX_RETRIES

\* normalize_module: the test that the module has a field dict for the ticker
ModuleFound_AnyValue(d, ticker) == d.kind = "dict" /\ d.map[ticker] # "absent"

ModuleFound(d, ticker) == d.kind = "dict" /\ d.map[ticker] = "dict"

\* normalize_module: the dict it returns
normalize_module(d, module_name, ticker) ==
    IF ModuleFound(d, ticker) THEN ModuleFields(module_name) ELSE NoFields

\* row.update(fm)
RowUpdate(target, fm) ==
    [key \in SAKeys |-> IF fm[key] # Absent THEN fm[key] ELSE target[key]]

\* a status that is OK as soon as one module was found
StatusOf_AnyCoverage(coverage) == IF coverage > 0 THEN "OK" ELSE "NO_DATA"

\* the status of a row from its coverage
StatusOf(coverage) ==
    IF coverage = 4 THEN "OK" ELSE IF coverage > 0 THEN "PARTIAL" ELSE "NO_DATA"

\* what the normalize loop reads for a module: the result of this chunk's fetch
ChunkData_Sticky(m) ==
    IF \E c \in DOMAIN fetched : fetched[c].data[m].kind = "none"
        THEN NoneData ELSE data[m]

ChunkData(m) == data[m]

\* the body of `for ticker in chunk`: the row of one ticker
RowSA(ticker) ==
    LET d(m) == ChunkData(m)
        missing == SelectSeq(Modules, LAMBDA m : ~ModuleFound(d(m), ticker))
        errors == SelectSeq(Modules, LAMBDA m : err[m] # "")
        coverage == Cardinality({m \in ModuleSet : ModuleFound(d(m), ticker)})
        fields ==
            RowUpdate(RowUpdate(RowUpdate(RowUpdate(NoFields,
                normalize_module(d("price"), "price", ticker)),
                normalize_module(d("summary"), "summary", ticker)),
                normalize_module(d("calendar"), "calendar", ticker)),
                normalize_module(d("financial"), "financial", ticker))
    IN  [Ticker |-> ticker,
         fields |-> fields,
         DataCoverage |-> coverage,
         MissingModules |-> missing,
         YahooError |-> errors,
         Status |-> StatusOf(coverage)]

\* a fetch_with_retry that keeps the first cause it saw
FailedAttempt_FirstCause(cause) ==
    /\ faults < MaxFaults
    /\ faults' = faults + 1
    /\ calls' = [calls EXCEPT ![Modules[mod]] = @ + 1]
    /\ outcomes' = [outcomes EXCEPT ![Modules[mod]] =
                        Append(@, [kind |-> "failed", cause |-> cause])]
    /\ IF LastAttempt(attempt)
          THEN /\ data' = [data EXCEPT ![Modules[mod]] = NoneData]
               /\ err' = [err EXCEPT ![Modules[mod]] =
                             IF attempt > 1 THEN last_error ELSE cause]
               /\ mod' = mod + 1
               /\ attempt' = 1
               /\ last_error' = ""
          ELSE /\ attempt' = attempt + 1
               /\ last_error' = IF attempt > 1 THEN last_error ELSE cause
               /\ UNCHANGED <<data, err, mod>>
    /\ UNCHANGED <<pc, tickers, result_rows, chunk_start, unknown, fetched, frames,
                   otherSA>>

\* fetch_with_retry, an attempt that did not return a dict: keep the cause,
\* then retry after the delay or give up with (None, last_error)
FailedAttempt(cause) ==
    /\ faults < MaxFaults
    /\ faults' = faults + 1
    /\ calls' = [calls EXCEPT ![Modules[mod]] = @ + 1]
    /\ outcomes' = [outcomes EXCEPT ![Modules[mod]] =
                        Append(@, [kind |-> "failed", cause |-> cause])]
    /\ IF LastAttempt(attempt)
          THEN /\ data' = [data EXCEPT ![Modules[mod]] = NoneData]
               /\ err' = [err EXCEPT ![Modules[mod]] = cause]
               /\ mod' = mod + 1
               /\ attempt' = 1
               /\ last_error' = ""
          ELSE /\ attempt' = attempt + 1
               /\ last_error' = cause
               /\ UNCHANGED <<data, err, mod>>
    /\ UNCHANGED <<pc, tickers, result_rows, chunk_start, unknown, fetched, frames,
                   otherSA>>

\* the known tickers of the chunk for which mapping m holds no field dict
Faulty(m) == {sym \in ChunkSyms(chunk_start) \ unknown : m[sym] # "dict"}

\* a fetch_with_retry that calls the getter again after a mapping that lacks
\* a field dict for a ticker of the chunk
GetterReturnsDict_RetriesPartial ==
    /\ pc = "fetch" /\ mod \in DOMAIN Modules
    /\ \E m \in [Symbols -> EntryKinds] :
          /\ \A sym \in Symbols \ ChunkSyms(chunk_start) : m[sym] = "absent"
          /\ \A sym \in ChunkSyms(chunk_start) \cap unknown : m[sym] = "str"
          /\ faults + Cardinality(Faulty(m)) <= MaxFaults
          /\ faults' = faults + Cardinality(Faulty(m))
          /\ data' = [data EXCEPT ![Modules[mod]] = DictData(m)]
          /\ IF Faulty(m) # {} /\ ~LastAttempt(attempt)
                THEN attempt' = attempt + 1 /\ mod' = mod
             ELSE attempt' = 1 /\ mod' = mod + 1
    /\ err' = [err EXCEPT ![Modules[mod]] = ""]
    /\ calls' = [calls EXCEPT ![Modules[mod]] = @ + 1]
    /\ outcomes' = [outcomes EXCEPT ![Modules[mod]] =
                        Append(@, [kind |-> "dict", cause |-> ""])]
    /\ last_error' = ""
    /\ UNCHANGED <<pc, tickers, result_rows, chunk_start, unknown, fetched, frames,
                   otherSA>>

\* fetch_with_retry: getter() returns a mapping.  It holds an error string
\* for a symbol the provider has no quote for; it may lack other tickers of
\* the chunk or hold a non-dict value for them.
GetterReturnsDict ==
    /\ pc = "fetch" /\ mod \in DOMAIN Modules
    /\ \E m \in [Symbols -> EntryKinds] :
          /\ \A sym \in Symbols \ ChunkSyms(chunk_start) : m[sym] = "absent"
          /\ \A sym \in ChunkSyms(chunk_start) \cap unknown : m[sym] = "str"
          /\ faults + Cardinality(Faulty(m)) <= MaxFaults
          /\ faults' = faults + Cardinality(Faulty(m))
          /\ data' = [data EXCEPT ![Modules[mod]] = DictData(m)]
    /\ err' = [err EXCEPT ![Modules[mod]] = ""]
    /\ calls' = [calls EXCEPT ![Modules[mod]] = @ + 1]
    /\ outcomes' = [outcomes EXCEPT ![Modules[mod]] =
                        Append(@, [kind |-> "dict", cause |-> ""])]
    /\ mod' = mod + 1
    /\ attempt' = 1
    /\ last_error' = ""
    /\ UNCHANGED <<pc, tickers, result_rows, chunk_start, unknown, fetched, frames,
                   otherSA>>

\* fetch_with_retry: getter() returns something that is not a dict
GetterReturnsOther ==
    /\ pc = "fetch" /\ mod \in DOMAIN Modules
    /\ \E payload \in PayloadTexts : FailedAttempt(payload)

\* fetch_with_retry: getter() raises
GetterRaises ==
    /\ pc = "fetch" /\ mod \in DOMAIN Modules
    /\ \E msg \in ExceptionTexts : FailedAttempt(msg)

\* the loop over the tickers of the chunk, then the next chunk or the end
NormalizeChunk ==
    /\ pc = "fetch" /\ mod = Len(Modules) + 1
    /\ result_rows' = result_rows \o
            [i \in 1..Len(Chunk(chunk_start)) |-> RowSA(Chunk(chunk_start)[i])]
    /\ fetched' = Append(fetched, [data |-> data, err |-> err, calls |-> calls,
                                   outcomes |-> outcomes])
    /\ outcomes' = [m \in ModuleSet |-> <<>>]
    /\ chunk_start' = chunk_start + CHUNK_SIZE
    /\ calls' = [m \in ModuleSet |-> 0]
    /\ mod' = 1
    /\ pc' = IF chunk_start + CHUNK_SIZE > Len(tickers) THEN "done" ELSE "fetch"
    /\ UNCHANGED <<tickers, attempt, last_error, data, err, unknown, faults, frames,
                   otherSA>>

NextStockDataA ==
    GetterReturnsDict \/ GetterReturnsOther \/ GetterRaises \/ NormalizeChunk

\* the ticker column as loaded: not empty (the script raises otherwise), no
\* blank entries (they are dropped), duplicates possible
InitStockDataA ==
    /\ pc = "fetch"
    /\ tickers \in SeqsUpTo(Symbols, MaxChunkedTickers) \ {<<>>}
    /\ tickers[1] = "A"       \* symbols are interchangeable: the first is A
    /\ result_rows = <<>>
    /\ chunk_start = 1 /\ mod = 1 /\ attempt = 1 /\ last_error = ""
    /\ data = [m \in ModuleSet |-> NoneData]
    /\ err = [m \in ModuleSet |-> ""]
    /\ calls = [m \in ModuleSet |-> 0]
    /\ outcomes = [m \in ModuleSet |-> <<>>]
    /\ unknown \in SUBSET Symbols
    /\ faults = 0
    /\ fetched = <<>> /\ frames = <<>>
    /\ script = "Stock_Data_A"
    /\ IdleLS /\ IdleU /\ IdleTP /\ IdleMain /\ IdleXL

SpecStockDataA == InitStockDataA /\ [][NextStockDataA]_vars

-----------------------------------------------------------------------------
(* Stock_Data_A: properties *)

\* the chunk (position in fetched) that row i was built from
ChunkOf(i) == ((i - 1) \div CHUNK_SIZE) + 1

\* the modules whose fetch for row i's chunk returned a mapping that holds a
\* field dict for the row's ticker
FoundModules(i) ==
    {m \in ModuleSet :
        /\ fetched[ChunkOf(i)].data[m].kind = "dict"
        /\ fetched[ChunkOf(i)].data[m].map[tickers[i]] = "dict"}

SeqToSet(q) == {q[j] : j \in DOMAIN q}

\* C5: a ticker found in all 4 modules is OK, one found in some but not all
\* is PARTIAL, one found in none is NO_DATA.
C5_StatusClassification ==
    \A i \in DOMAIN result_rows :
        LET n == Cardinality(FoundModules(i))
        IN  /\ result_rows[i].Ticker = tickers[i]
            /\ n = 4 => result_rows[i].Status = "OK"
            /\ (n > 0 /\ n < 4) => result_rows[i].Status = "PARTIAL"
            /\ n = 0 => result_rows[i].Status = "NO_DATA"

\* C5 witness: a finished run with a NO_DATA row (no module had the ticker)
\* and an OK row
C5_Witness ==
    /\ pc = "done"
    /\ \E i \in DOMAIN result_rows :
          FoundModules(i) = {} /\ result_rows[i].Status = "NO_DATA"
    /\ \E i \in DOMAIN result_rows :
          FoundModules(i) = ModuleSet /\ result_rows[i].Status = "OK"

\* C6: no module of a chunk is ever called more than MAX_RETRIES times; a
\* module fetch that failed was called exactly MAX_RETRIES times, and every
\* row of that chunk lists the module in MissingModules.
C6_RetryTermination ==
    /\ \A m \in ModuleSet : calls[m] <= MAX_RETRIES
    /\ attempt \in 1..MAX_RETRIES
    /\ \A c \in DOMAIN fetched : \A m \in ModuleSet :
          /\ fetched[c].calls[m] \in 1..MAX_RETRIES
          /\ fetched[c].data[m].kind = "none" =>
                /\ fetched[c].calls[m] = MAX_RETRIES
                /\ \A i \in DOMAIN result_rows :
                      ChunkOf(i) = c => m \in SeqToSet(result_rows[i].MissingModules)

\* C6 witness: a finished run in which a module fetch failed on every attempt
C6_Witness ==
    /\ pc = "done"
    /\ \E c \in DOMAIN fetched : \E m \in ModuleSet :
          /\ fetched[c].data[m].kind = "none"
          /\ fetched[c].calls[m] = MAX_RETRIES
          /\ \E i \in DOMAIN result_rows :
                ChunkOf(i) = c /\ m \in SeqToSet(result_rows[i].MissingModules)

\* C7: a row lists a module as missing when the fetch of its own chunk
\* failed, and carries the module's fields when its own chunk's mapping holds
\* them, whatever happened to the module in other chunks; every ticker of a
\* finished chunk has its row.
C7_FailureScopedToBatch ==
    /\ Len(result_rows) =
          (IF Len(fetched) * CHUNK_SIZE < Len(tickers)
              THEN Len(fetched) * CHUNK_SIZE ELSE Len(tickers))
    /\ \A i \in DOMAIN result_rows : \A m \in ModuleSet :
          /\ result_rows[i].Ticker = tickers[i]
          /\ fetched[ChunkOf(i)].data[m].kind = "none" =>
                m \in SeqToSet(result_rows[i].MissingModules)
          /\ m \in FoundModules(i) =>
                /\ m \notin SeqToSet(result_rows[i].MissingModules)
                /\ result_rows[i].fields[OwnKey(m)] = ModuleFields(m)[OwnKey(m)]

\* C7 witness: price failed for the first chunk and succeeded for the second
C7_Witness ==
    /\ pc = "done" /\ Len(fetched) = 2
    /\ fetched[1].data["price"].kind = "none"
    /\ "price" \in SeqToSet(result_rows[1].MissingModules)
    /\ "price" \in FoundModules(Len(result_rows))
    /\ ChunkOf(Len(result_rows)) = 2
    /\ result_rows[Len(result_rows)].fields["regularMarketPrice"] # Absent

\* the getter call made in this step returned a mapping
ReturnsMapping ==
    /\ pc = "fetch" /\ mod \in DOMAIN Modules
    /\ Len(outcomes'[Modules[mod]]) = Len(outcomes[Modules[mod]]) + 1
    /\ outcomes'[Modules[mod]][Len(outcomes'[Modules[mod]])].kind = "dict"

\* in a history of getter calls, a call that returned a mapping is the last
EndsAtMapping(h) == \A k \in DOMAIN h : h[k].kind = "dict" => k = Len(h)

\* C18: fetch_with_retry treats any mapping as success on the attempt that
\* returns it, also one that lacks tickers of the batch: it returns the
\* mapping at once with no error text, no further call is made for that
\* module and batch, no row is touched, and a ticker the mapping lacks is
\* listed as missing when the batch's rows are built.
C18_MappingIsSuccess ==
    /\ [](script = "Stock_Data_A" =>
            /\ \A m \in ModuleSet : EndsAtMapping(outcomes[m])
            /\ \A c \in DOMAIN fetched : \A m \in ModuleSet :
                  LET h == fetched[c].outcomes[m]
                  IN  /\ EndsAtMapping(h)
                      /\ h[Len(h)].kind = "dict" =>
                            /\ fetched[c].data[m].kind = "dict"
                            /\ fetched[c].err[m] = ""
                            /\ fetched[c].calls[m] = Len(h)
                            /\ \A i \in DOMAIN result_rows :
                                  (/\ ChunkOf(i) = c
                                   /\ fetched[c].data[m].map[tickers[i]] = "absent")
                                  => m \in SeqToSet(result_rows[i].MissingModules))
    /\ [][(script = "Stock_Data_A" /\ ReturnsMapping) =>
             /\ mod' = mod + 1
             /\ attempt' = 1
             /\ data'[Modules[mod]].kind = "dict"
             /\ err'[Modules[mod]] = ""
             /\ result_rows' = result_rows]_vars

\* C18 witness: a finished batch whose price fetch returned, on its first
\* call, a mapping without a ticker of the batch, and the ticker's row lists
\* price as missing
C18_Witness ==
    /\ script = "Stock_Data_A" /\ Len(fetched) >= 1
    /\ Len(fetched[1].outcomes["price"]) = 1
    /\ fetched[1].data["price"].kind = "dict"
    /\ \E i \in DOMAIN result_rows :
          /\ ChunkOf(i) = 1
          /\ fetched[1].data["price"].map[tickers[i]] = "absent"
          /\ "price" \in SeqToSet(result_rows[i].MissingModules)
          /\ \E j \in DOMAIN result_rows :
                /\ ChunkOf(j) = 1
                /\ fetched[1].data["price"].map[tickers[j]] = "dict"

\* the number of batches of the run
Batches == (Len(tickers) + CHUNK_SIZE - 1) \div CHUNK_SIZE

\* C19: a module fetch that failed on every attempt returns the failure
\* marker (None) with the cause of its last attempt, and the run goes on:
\* every module of the batch is fetched, the batch's rows are built, and
\* the run ends only after the last batch.
C19_LastCauseAndContinue ==
    script = "Stock_Data_A" =>
        /\ pc \in {"fetch", "done"}
        /\ pc = "done" <=> Len(fetched) = Batches
        /\ Len(result_rows) =
              (IF Len(fetched) * CHUNK_SIZE < Len(tickers)
                  THEN Len(fetched) * CHUNK_SIZE ELSE Len(tickers))
        /\ \A c \in DOMAIN fetched : \A m \in ModuleSet :
              LET h == fetched[c].outcomes[m]
              IN  /\ Len(h) >= 1
                  /\ fetched[c].data[m].kind = "none" =>
                        /\ Len(h) = MAX_RETRIES
                        /\ \A k \in DOMAIN h : h[k].kind = "failed"
                        /\ fetched[c].err[m] = h[Len(h)].cause

\* C19 witness: a finished run of two batches; in the first the price fetch
\* failed twice with different causes and the marker carries the second,
\* the summary fetch of that batch and the price fetch of the next succeeded
C19_Witness ==
    /\ script = "Stock_Data_A" /\ pc = "done" /\ Len(fetched) = 2
    /\ fetched[1].data["price"].kind = "none"
    /\ fetched[1].outcomes["price"][1].cause # fetched[1].outcomes["price"][2].cause
    /\ fetched[1].err["price"] = fetched[1].outcomes["price"][2].cause
    /\ fetched[1].data["summary"].kind = "dict"
    /\ fetched[2].data["price"].kind = "dict"

\* the position of a module in the merge order
ModuleIndex(m) == CHOOSE j \in DOMAIN Modules : Modules[j] = m

\* the modules found for row i that carry a value under key
Setters(i, key) == {m \in FoundModules(i) : ModuleFields(m)[key] # Absent}

\* the first of them in merge order
FirstSetter(i, key) ==
    CHOOSE m \in Setters(i, key) :
        \A o \in Setters(i, key) : ModuleIndex(m) <= ModuleIndex(o)

\* C23: when the price, summary, calendar and financial field maps of a
\* ticker are merged into one row, a later-merged module only fills fields
\* the earlier-merged modules left unset: every field of the row holds the
\* value of the first module, in merge order, that carries the field.
C23_FirstModuleWins ==
    script = "Stock_Data_A" =>
        \A i \in DOMAIN result_rows : \A key \in SAKeys :
            result_rows[i].fields[key] =
                IF Setters(i, key) = {} THEN Absent
                ELSE ModuleFields(FirstSetter(i, key))[key]

\* C23 restricted to the fields only one module carries: they hold that
\* module's value when it was found and are absent otherwise
C23_OwnFieldsKept ==
    script = "Stock_Data_A" =>
        \A i \in DOMAIN result_rows : \A m \in ModuleSet :
            result_rows[i].fields[OwnKey(m)] =
                IF m \in FoundModules(i) THEN ModuleFields(m)[OwnKey(m)]
                ELSE Absent

\* C28: for every row each of the four modules is counted exactly once:
\* DataCoverage plus the number of names in MissingModules is 4, no module
\* is named twice, the named modules are the ones not found, and Status is
\* OK exactly when MissingModules is empty.
C28_EveryModuleCountedOnce ==
    script = "Stock_Data_A" =>
        \A i \in DOMAIN result_rows :
            LET r == result_rows[i]
            IN  /\ r.DataCoverage + Len(r.MissingModules) = 4
                /\ Cardinality(SeqToSet(r.MissingModules)) = Len(r.MissingModules)
                /\ SeqToSet(r.MissingModules) = ModuleSet \ FoundModules(i)
                /\ r.DataCoverage = Cardinality(FoundModules(i))
                /\ (r.Status = "OK") <=> (r.MissingModules = <<>>)

\* C28 witness: a finished run with a row found in all four modules, a row
\* found in none and a row found in some
C28_Witness ==
    /\ script = "Stock_Data_A" /\ pc = "done"
    /\ \E i \in DOMAIN result_rows :
          result_rows[i].DataCoverage = 4 /\ result_rows[i].MissingModules = <<>>
    /\ \E i \in DOMAIN result_rows :
          result_rows[i].DataCoverage = 0 /\ Len(result_rows[i].MissingModules) = 4
    /\ \E i \in DOMAIN result_rows :
          result_rows[i].DataCoverage = 2 /\ Len(result_rows[i].MissingModules) = 2

\* the fetch of module m for the chunk of row i failed on every attempt
FailedEveryAttempt(i, m) ==
    LET o == fetched[ChunkOf(i)].outcomes[m]
    IN  Len(o) = MAX_RETRIES /\ \A j \in DOMAIN o : o[j].kind = "failed"

\* C29: a row's YahooError lists a module if and only if that module's fetch
\* for the row's batch failed on every attempt, whatever the failure payload
\* or exception message was (an empty one included), and every module
\* listed in YahooError is also listed in MissingModules.
C29_YahooErrorIffFailed ==
    script = "Stock_Data_A" =>
        \A i \in DOMAIN result_rows :
            /\ \A m \in ModuleSet :
                  (m \in SeqToSet(result_rows[i].YahooError)) <=>
                      FailedEveryAttempt(i, m)
            /\ SeqToSet(result_rows[i].YahooError) \subseteq
                  SeqToSet(result_rows[i].MissingModules)

\* C29, the direction that holds: a module listed in YahooError failed on
\* every attempt and is listed in MissingModules
C29_ListedImpliesFailed ==
    script = "Stock_Data_A" =>
        \A i \in DOMAIN result_rows :
            \A m \in SeqToSet(result_rows[i].YahooError) :
                /\ FailedEveryAttempt(i, m)
                /\ m \in SeqToSet(result_rows[i].MissingModules)

-----------------------------------------------------------------------------
(* update_one / Stock_Data_complete404: the per-ticker fetch loop, one row *)
(* per ticker, built from fast_info, info, calendar, history and intraday  *)

\* longest ticker list of a per-ticker loop
MaxLoopTickers == 2

Scripts == {"update_one", "update_asx_two", "Stock_Data_complete404"}

\* the keys of a row, in the order the loop body inserts them
RowKeys ==
    << "Ticker", "Status", "MissingFields", "Open", "MarketPrice",
       "MarketDayHigh", "MarketDayLow", "MarketPreviousClose", "Volume",
       "MarketTime", "AverageVolume", "marketCap", "fiftyTwoWeekHigh",
       "fiftyTwoWeekLow", "currency", "targetMeanPrice", "recommendationMean",
       "dividendRate", "dividendYield", "exDividendDate", "earningsDate" >>

RowKeySet == {RowKeys[i] : i \in DOMAIN RowKeys}

\* the keys read from tk.fast_info and the row fields they fill directly
InfoKeys ==
    { "open", "lastPrice", "dayHigh", "dayLow", "previousClose", "volume",
      "lastTradeTime" }

InfoField ==
    [k \in {"MarketPrice", "MarketDayHigh", "MarketDayLow", "MarketPreviousClose",
            "Volume"} |->
        CASE k = "MarketPrice" -> "lastPrice"
          [] k = "MarketDayHigh" -> "dayHigh"
          [] k = "MarketDayLow" -> "dayLow"
          [] k = "MarketPreviousClose" -> "previousClose"
          [] k = "Volume" -> "volume"]

\* the row fields copied from tk.info under their own name
FullFields ==
    { "marketCap", "fiftyTwoWeekHigh", "fiftyTwoWeekLow", "currency",
      "targetMeanPrice", "recommendationMean", "dividendRate", "dividendYield",
      "exDividendDate" }

FullKeys ==
    FullFields \cup
        { "regularMarketOpen", "open", "regularMarketTime", "marketTime",
          "averageVolume", "averageVolume10days" }

Timestamp(n) == Val("datetime", n, 1, "")
EmptyList == Val("list", 0, 1, "")
\* a non-empty list of dates; s is its first element
DateList(first) == Val("list", 1, 1, first)

\* d.get(key, default)
DictGetOr(fm, key, default) == IF fm[key].k = "absent" THEN default ELSE fm[key]

\* v in ("", None)
InBlankNone(v) == v.k = "none" \/ (v.k = "str" /\ v.s = "")

\* row = {"Ticker": ticker, "Status": "OK", "MissingFields": ""}; the names
\* joined into MissingFields are kept in missing
NewRow(ticker) ==
    [cells |-> [k \in RowKeySet |->
                    CASE k = "Ticker" -> Str(ticker)
                      [] k = "Status" -> Str("OK")
                      [] k = "MissingFields" -> Str("")
                      [] OTHER -> Absent],
     missing |-> <<>>]

\* ",".join(missing), the names being in the row's missing
Joined == Val("joined", 0, 1, "")

\* the fields read from fast_info and info
PrimaryFields(scr, cells, info, fl) ==
    [k \in RowKeySet |->
        CASE k = "Open" ->
                IF scr # "Stock_Data_complete404"
                   THEN PyOr(DictGet(info, "open"),
                         PyOr(DictGet(fl, "regularMarketOpen"),
                          PyOr(DictGet(fl, "open"), Str(""))))
                   ELSE PyOr(DictGetOr(info, "open", Str("")),
                         PyOr(DictGetOr(fl, "regularMarketOpen", Str("")),
                              DictGetOr(fl, "open", Str(""))))
          [] k \in DOMAIN InfoField -> DictGetOr(info, InfoField[k], Str(""))
          [] k = "MarketTime" ->
                IF scr = "update_asx_two" THEN Str("")
                ELSE IF scr = "update_one"
                   THEN PyOr(DictGet(info, "lastTradeTime"),
                         PyOr(DictGet(fl, "regularMarketTime"),
                          PyOr(DictGet(fl, "marketTime"), Str(""))))
                   ELSE PyOr(DictGetOr(info, "lastTradeTime", Str("")),
                         PyOr(DictGetOr(fl, "regularMarketTime", Str("")),
                              DictGetOr(fl, "marketTime", Str(""))))
          [] k = "AverageVolume" -> Str("")
          [] k \in FullFields -> DictGetOr(fl, k, Str(""))
          [] OTHER -> cells[k]]

\* row["earningsDate"] from tk.calendar; cal is the value under "Earnings
\* Date" (Absent: no such entry, or an empty calendar)
EarningsDate(scr, cal) ==
    CASE cal.k = "absent" -> Str("")
      [] cal.k = "list" /\ cal.n > 0 -> Str(cal.s)
      [] OTHER -> IF scr # "Stock_Data_complete404" THEN cal ELSE Str("")

\* tk.history(...): kind is raises, empty or data; open / volume are the last
\* non-NaN value of the column (Absent: no such column, None: all NaN), mean
\* the mean of the Volume tail, last the last index entry
Hist(kind, open, volume) ==
    [kind |-> kind, open |-> open, volume |-> volume,
     mean |-> Num(1000, 1), last |-> Timestamp(3)]

\* update_one.py: the history fallbacks
HistoryUpdateOne(cells, hist) ==
    IF hist.kind # "data" THEN cells
    ELSE LET wantOpen == ~Truthy(cells["Open"]) /\ hist.open.k # "absent"
         IN  IF wantOpen /\ hist.open.k = "none"
                THEN cells      \* iloc[-1] of an empty series raises: except: pass
             ELSE LET c1 == IF wantOpen THEN [cells EXCEPT !["Open"] = hist.open]
                            ELSE cells
                      c2 == IF hist.volume.k \notin {"absent", "none"}
                               THEN [c1 EXCEPT
                                       !["Volume"] = PyOr(c1["Volume"], hist.volume),
                                       !["AverageVolume"] = hist.mean]
                            ELSE c1
                  IN  IF ~Truthy(c2["MarketTime"])
                         THEN [c2 EXCEPT !["MarketTime"] = hist.last]
                      ELSE c2

\* Stock_Data_complete404.py: the history fallbacks
HistoryComplete404(cells, hist) ==
    CASE hist.kind = "raises" -> [cells EXCEPT !["AverageVolume"] = Str("")]
      [] hist.kind = "empty" -> cells
      [] OTHER ->
            LET c1 == IF /\ InBlankNone(cells["Open"])
                         /\ hist.open.k \notin {"absent", "none"}
                         THEN [cells EXCEPT !["Open"] = hist.open]
                      ELSE cells
                c2 == IF hist.volume.k = "absent" THEN c1
                      ELSE [c1 EXCEPT
                              !["Volume"] =
                                  IF InBlankNone(@) /\ hist.volume.k # "none"
                                     THEN hist.volume ELSE @,
                              !["AverageVolume"] =
                                  IF hist.volume.k # "none" THEN hist.mean
                                  ELSE Str("")]
            IN  IF InBlankNone(c2["MarketTime"])
                   THEN [c2 EXCEPT !["MarketTime"] = hist.last]
                ELSE c2

\* update_asx_two.py: the history fallbacks; MarketTime is left alone
HistoryUpdateAsxTwo(cells, hist) ==
    IF hist.kind # "data" THEN cells
    ELSE LET c1 == IF /\ ~Truthy(cells["Open"])
                      /\ hist.open.k \notin {"absent", "none"}
                      THEN [cells EXCEPT !["Open"] = hist.open]
                   ELSE cells
         IN  IF hist.volume.k \notin {"absent", "none"}
                THEN [c1 EXCEPT !["Volume"] = PyOr(c1["Volume"], hist.volume),
                                !["AverageVolume"] = hist.mean]
             ELSE c1

History(scr, cells, hist) ==
    IF scr = "update_one" THEN HistoryUpdateOne(cells, hist)
    ELSE IF scr = "update_asx_two" THEN HistoryUpdateAsxTwo(cells, hist)
    ELSE HistoryComplete404(cells, hist)

\* AverageVolume from info when history gave none
AverageVolume(scr, cells, fl) ==
    IF scr # "Stock_Data_complete404"
       THEN IF ~Truthy(cells["AverageVolume"])
               THEN [cells EXCEPT !["AverageVolume"] =
                        PyOr(DictGet(fl, "averageVolume"),
                         PyOr(DictGet(fl, "averageVolume10days"), Str("")))]
            ELSE cells
    ELSE IF InBlankNone(cells["AverageVolume"])
            THEN [cells EXCEPT !["AverageVolume"] =
                     PyOr(DictGetOr(fl, "averageVolume", Str("")),
                          DictGetOr(fl, "averageVolume10days", Str("")))]
         ELSE cells

\* whether the intraday history is consulted for MarketTime
WantsIntraday(scr, cells) ==
    IF scr = "update_one" THEN ~Truthy(cells["MarketTime"])
    ELSE IF scr = "update_asx_two" THEN TRUE
    ELSE InBlankNone(cells["MarketTime"])

\* MarketTime from the intraday history; intraday is raises, empty or data
Intraday(scr, cells, intraday) ==
    IF WantsIntraday(scr, cells) /\ intraday = "data"
       THEN [cells EXCEPT !["MarketTime"] = Timestamp(4)]
    ELSE cells

\* missing = [k for k, v in row.items() if v in ("", None)]
Missing(cells) == SelectSeq(RowKeys, LAMBDA k : InBlankNone(cells[k]))

\* the diagnostics at the end of the try block
Diagnostics(r) ==
    IF Len(Missing(r.cells)) > 3
       THEN [cells |-> [r.cells EXCEPT !["Status"] = Str("PARTIAL"),
                                       !["MissingFields"] = Joined],
             missing |-> Missing(r.cells)]
    ELSE r

\* except Exception as e
NoData(r, e) ==
    [r EXCEPT !.cells["Status"] = Str("NO_DATA"), !.cells["MissingFields"] = Str(e)]

-----------------------------------------------------------------------------
(* the provider answers a per-ticker run may meet: every combination on the *)
(* fields with fallbacks for a single ticker, a few for longer lists        *)

Detailed == Len(tickers) = 1

AllAbsent(keys) == [k \in keys |-> Absent]

InfoSamples ==
    IF Detailed
       THEN { [k \in InfoKeys |->
                 CASE k = "open" -> o
                   [] k = "volume" -> v
                   [] k = "lastTradeTime" -> t
                   [] OTHER -> IF k \in gone THEN Absent ELSE Num(5, 1)] :
              o \in {Absent, Num(0, 1), Num(10, 1)},
              v \in {Absent, Num(0, 1), Num(500, 1)},
              t \in {Absent, Timestamp(1)},
              gone \in {{}, {"lastPrice"}} }
    ELSE { [k \in InfoKeys |->
                 CASE k = "open" -> o
                   [] k = "volume" -> Num(500, 1)
                   [] k = "lastTradeTime" -> Timestamp(1)
                   [] OTHER -> Num(5, 1)] :
              o \in {Absent, Num(10, 1)} }

FullSamples ==
    IF Detailed
       THEN { [k \in FullKeys |->
                 CASE k = "regularMarketOpen" -> o
                   [] k = "open" -> o2
                   [] k = "averageVolume" -> a
                   [] k \in FullFields -> IF k \in gone THEN Absent ELSE Num(7, 1)
                   [] OTHER -> Absent] :
              o \in {Absent, Num(11, 1)},
              o2 \in {Absent, Num(0, 1)},
              a \in {Absent, Num(800, 1)},
              gone \in {{}, {"dividendRate", "dividendYield", "exDividendDate"},
                        FullFields} }
    ELSE { [k \in FullKeys |->
                 IF k \in FullFields \cup {"averageVolume"} THEN Num(7, 1)
                 ELSE Absent] }

CalendarSamples ==
    IF Detailed THEN {Absent, DateList("2025-02-20"), EmptyList, None}
    ELSE {DateList("2025-02-20")}

HistSamples ==
    IF Detailed
       THEN { Hist("raises", Absent, Absent), Hist("empty", Absent, Absent),
              Hist("data", Num(9, 1), Num(1200, 1)),
              Hist("data", None, Num(1200, 1)),
              Hist("data", Num(9, 1), Absent),
              Hist("data", Num(9, 1), None) }
    ELSE { Hist("raises", Absent, Absent), Hist("data", Num(9, 1), Num(1200, 1)) }

IntradaySamples == IF Detailed THEN {"raises", "empty", "data"} ELSE {"empty"}

FetchErrors == {"HTTP Error 404"}

-----------------------------------------------------------------------------
(* the loop body, one action per provider access *)

\* rows.append(row), then the next ticker or the end of the loop
AppendRow(r) ==
    /\ result_rows' = Append(result_rows, r)
    /\ IF tick = Len(tickers)
          THEN /\ pc' = "done"
               /\ row' = r
               /\ UNCHANGED <<tick, full, primary>>
          ELSE /\ pc' = "primary"
               /\ tick' = tick + 1
               /\ row' = NewRow(tickers[tick + 1])
               /\ full' = AllAbsent(FullKeys)
               /\ primary' = NewRow(tickers[tick + 1]).cells

\* tk.fast_info and tk.info, and the fields read from them
FetchPrimary ==
    /\ pc = "primary"
    /\ \E info \in InfoSamples, fl \in FullSamples :
          /\ row' = [row EXCEPT !.cells = PrimaryFields(script, @, info, fl)]
          /\ full' = fl
    /\ pc' = "calendar"
    /\ UNCHANGED <<tickers, result_rows, tick, primary, otherU>>

\* tk.calendar and the earnings date
FetchCalendar ==
    /\ pc = "calendar"
    /\ \E cal \in CalendarSamples :
          /\ row' = [row EXCEPT !.cells["earningsDate"] = EarningsDate(script, cal)]
          /\ primary' = [row.cells EXCEPT !["earningsDate"] = EarningsDate(script, cal)]
    /\ pc' = "history"
    /\ UNCHANGED <<tickers, result_rows, tick, full, otherU>>

\* a loop body without the except: the exception ends the run
FetchRaises_Uncaught ==
    /\ pc \in {"primary", "calendar"}
    /\ pc' = "raised"
    /\ UNCHANGED <<tickers, result_rows, tick, row, full, primary, otherU>>

\* yf.Ticker, fast_info or calendar raises: the except of the loop body
FetchRaises ==
    /\ pc \in {"primary", "calendar"}
    /\ \E e \in FetchErrors : AppendRow(NoData(row, e))
    /\ UNCHANGED <<tickers, otherU>>

\* tk.history(period=HISTORY_PERIOD, ...) and its fallbacks
FetchHistory ==
    /\ pc = "history"
    /\ \E hist \in HistSamples :
          row' = [row EXCEPT !.cells = History(script, @, hist)]
    /\ pc' = "average"
    /\ UNCHANGED <<tickers, result_rows, tick, full, primary, otherU>>

\* AverageVolume from info
FallbackAverageVolume ==
    /\ pc = "average"
    /\ row' = [row EXCEPT !.cells = AverageVolume(script, @, full)]
    /\ pc' = "intraday"
    /\ UNCHANGED <<tickers, result_rows, tick, full, primary, otherU>>

\* tk.history(period=INTRADAY_PERIOD, ...) when MarketTime is still empty
FetchIntraday ==
    /\ pc = "intraday"
    /\ \E intraday \in IntradaySamples :
          row' = [row EXCEPT !.cells = Intraday(script, @, intraday)]
    /\ pc' = "diagnostics"
    /\ UNCHANGED <<tickers, result_rows, tick, full, primary, otherU>>

\* the diagnostics and rows.append(row)
Diagnose ==
    /\ pc = "diagnostics"
    /\ AppendRow(Diagnostics(row))
    /\ UNCHANGED <<tickers, otherU>>

NextPerTicker ==
    \/ FetchPrimary \/ FetchCalendar \/ FetchRaises \/ FetchHistory
    \/ FallbackAverageVolume \/ FetchIntraday \/ Diagnose

\* the ticker column as loaded: not empty (the script raises otherwise), no
\* blank entries (they are dropped), duplicates possible
InitPerTicker ==
    /\ script \in Scripts
    /\ pc = "primary"
    /\ tickers \in SeqsUpTo(Symbols, MaxLoopTickers) \ {<<>>}
    /\ result_rows = <<>>
    /\ tick = 1
    /\ row = NewRow(tickers[1])
    /\ full = AllAbsent(FullKeys)
    /\ primary = NewRow(tickers[1]).cells
    /\ IdleLS /\ IdleSA /\ IdleTP /\ IdleMain /\ IdleXL

SpecPerTicker == InitPerTicker /\ [][NextPerTicker]_vars

-----------------------------------------------------------------------------
(* update_one / Stock_Data_complete404: properties *)

\* the fields that have a history or intraday fallback
FallbackFields == {"Open", "Volume", "MarketTime"}

\* C8: a history or intraday fallback value is written only into a field
\* the primary source left empty ("" or None); a field the primary source
\* populated, with 0 included, keeps its value.
C8_FallbackNeverOverwrites ==
    \A f \in FallbackFields :
        (primary[f].k # "absent" /\ ~InBlankNone(primary[f])) =>
            row.cells[f] = primary[f]

\* the positions of the loop body, and the end of the loop
LoopPositions ==
    {"primary", "calendar", "history", "average", "intraday", "diagnostics"}

\* the loop body of ticker tick ends in its except clause: a row is appended
\* while the body is still at a provider access of its try block
RaisedInBody ==
    /\ pc \in {"primary", "calendar"}
    /\ Len(result_rows') = Len(result_rows) + 1

\* the rows so far are those of the tickers before the current one, in order
RowPerTicker ==
    /\ pc \in LoopPositions \cup {"done"}
    /\ Len(result_rows) = IF pc = "done" THEN Len(tickers) ELSE tick - 1
    /\ \A i \in DOMAIN result_rows :
          result_rows[i].cells["Ticker"] = Str(tickers[i])

\* C13: a failed fetch for one ticker never cancels the run: an exception
\* raised while fetching ticker k appends a row for k with Status NO_DATA and
\* the loop goes on with ticker k + 1 (it ends only after the last ticker);
\* the run never ends in an exception, and the output has exactly one row
\* per loaded ticker in loaded order.
C13_FailedFetchNeverCancels ==
    /\ [](script \in Scripts => RowPerTicker)
    /\ [][(script \in Scripts /\ RaisedInBody) =>
             /\ result_rows'[tick].cells["Ticker"] = Str(tickers[tick])
             /\ result_rows'[tick].cells["Status"] = Str("NO_DATA")
             /\ SubSeq(result_rows', 1, tick - 1) = result_rows
             /\ IF tick < Len(tickers)
                   THEN pc' = "primary" /\ tick' = tick + 1
                ELSE pc' = "done"]_vars

\* C13 witness: a finished run over two tickers in which the fetch of the
\* first raised and the second still got its row from the provider
C13_Witness ==
    /\ script = "update_asx_two" /\ pc = "done"
    /\ Len(tickers) = 2 /\ Len(result_rows) = 2
    /\ result_rows[1].cells["Status"] = Str("NO_DATA")
    /\ result_rows[2].cells["Status"] = Str("OK")

\* the data fields of a row: every key but Ticker and the two diagnostics
DataFields == RowKeySet \ {"Ticker", "Status", "MissingFields"}

\* the data fields of a row that are empty ("" or None)
EmptyData(cells) == {k \in DataFields : InBlankNone(cells[k])}

\* the loop body of ticker tick appends its row
RowAppended == Len(result_rows') = Len(result_rows) + 1

\* C21: in update_one / Stock_Data_complete404, when the fetch of a ticker
\* does not raise, the row's Status is PARTIAL exactly when more than 3 of
\* its data fields are empty and OK otherwise; Status is NO_DATA exactly
\* when the fetch raised.
C21_ThresholdStatus ==
    [][(script \in {"update_one", "Stock_Data_complete404"} /\ RowAppended) =>
          LET r == result_rows'[Len(result_rows')]
          IN  IF RaisedInBody
                 THEN r.cells["Status"] = Str("NO_DATA")
              ELSE r.cells["Status"] =
                      IF Cardinality(EmptyData(r.cells)) > 3
                         THEN Str("PARTIAL") ELSE Str("OK")]_vars

\* C21 with the count the code makes: missing is taken over every key of the
\* row, MissingFields (still "") included, so PARTIAL starts at 3 empty
\* data fields
C21_ThresholdCountsOwnKey ==
    [][(script \in {"update_one", "Stock_Data_complete404"} /\ RowAppended) =>
          LET r == result_rows'[Len(result_rows')]
          IN  IF RaisedInBody
                 THEN r.cells["Status"] = Str("NO_DATA")
              ELSE r.cells["Status"] =
                      IF Cardinality(EmptyData(r.cells)) + 1 > 3
                         THEN Str("PARTIAL") ELSE Str("OK")]_vars

\* C22: in update_one / Stock_Data_complete404, for every row whose fetch
\* did not raise, MissingFields names exactly the data fields of that row
\* that are empty: every empty data field is listed and nothing else is.
C22_MissingFieldsExact ==
    script \in {"update_one", "Stock_Data_complete404"} =>
        \A i \in DOMAIN result_rows :
            result_rows[i].cells["Status"] # Str("NO_DATA") =>
                SeqToSet(result_rows[i].missing) =
                    EmptyData(result_rows[i].cells)

\* C22, first half alone: every empty data field of a row is listed
C22_EveryEmptyFieldListed ==
    script \in {"update_one", "Stock_Data_complete404"} =>
        \A i \in DOMAIN result_rows :
            result_rows[i].cells["Status"] # Str("NO_DATA") =>
                EmptyData(result_rows[i].cells) \subseteq
                    SeqToSet(result_rows[i].missing)

\* C22, second half alone: only empty data fields of a row are listed
C22_OnlyEmptyFieldsListed ==
    script \in {"update_one", "Stock_Data_complete404"} =>
        \A i \in DOMAIN result_rows :
            result_rows[i].cells["Status"] # Str("NO_DATA") =>
                SeqToSet(result_rows[i].missing) \subseteq
                    EmptyData(result_rows[i].cells)

-----------------------------------------------------------------------------
(* GetYahooData / dataloader: one enrichment fetch per loaded ticker on a  *)
(* thread pool, collected with as_completed, then assembled / merged       *)

\* longest ticker list of a thread-pool run
MaxPoolTickers == 3

\* longest ticker list of a dataloader run, two sample lists apart
MaxMergeTickers == 2

\* max_workers of the pool (6 in the scripts; smaller here, so that a fetch
\* has to wait for a free worker)
MAX_WORKERS == 2

\* the fetches of a run whose first attempt may call for a retry
MaxRetried == 1

GYKeys ==
    { "Ticker", "1-Year Target Price", "Ex-Dividend Date", "Earnings Date",
      "Dividend Yield (%)", "Currency", "Error" }

ExtKeys ==
    { "Ticker", "OneYearTarget", "ExDividendDate", "EarningsDate",
      "DividendYield", "Currency" }

\* what the provider gives one single-attempt fetch: raises (the Ticker
\* object or a module access raises), the raw module fields, earn_api the
\* earningsDate list of calendar_events, earn_html the text scraped from
\* the calendar page ("" when the page or the span is missing)
Answer(raises, target, ex_div, earn_api, earn_html) ==
    [raises |-> raises, target |-> target, ex_div |-> ex_div,
     earn_api |-> earn_api, earn_html |-> earn_html,
     dividend_yield |-> Num(3, 100), currency |-> Str("AUD")]

\* pd.to_datetime(ex_div_date, unit="s").strftime("%Y-%m-%d"); "" for a
\* value that is not a number
ExDivString(raw) == IF raw.k = "num" THEN Str("2024-12-12") ELSE Str("")

\* ", ".join(...) of the API dates
EarningsApi(earn_raw) ==
    IF earn_raw.k = "list" /\ earn_raw.n > 0 THEN Str(earn_raw.s) ELSE Str("")

\* GetYahooData.fetch_ticker_data_once
fetch_ticker_data_once(ticker, a) ==
    IF a.raises
       THEN [k \in GYKeys |->
                CASE k = "Ticker" -> Str(ticker)
                  [] k = "Error" -> Str("HTTP Error 404")
                  [] OTHER -> Absent]
    ELSE [k \in GYKeys |->
             CASE k = "Ticker" -> Str(ticker)
               [] k = "1-Year Target Price" -> DictGetOr(a, "target", Str(""))
               [] k = "Ex-Dividend Date" -> ExDivString(a.ex_div)
               [] k = "Earnings Date" ->
                     IF ~Truthy(EarningsApi(a.earn_api)) THEN a.earn_html
                     ELSE EarningsApi(a.earn_api)
               [] k = "Dividend Yield (%)" -> a.dividend_yield
               [] k = "Currency" -> a.currency
               [] OTHER -> Absent]

\* dataloader.fetch_extended_once
fetch_extended_once(ticker, a) ==
    IF a.raises
       THEN [k \in ExtKeys |-> IF k = "Ticker" THEN Str(ticker) ELSE None]
    ELSE [k \in ExtKeys |->
             CASE k = "Ticker" -> Str(ticker)
               [] k = "OneYearTarget" -> DictGet(a, "target")
               [] k = "ExDividendDate" -> ExDivString(a.ex_div)
               [] k = "EarningsDate" -> a.earn_html
               [] k = "DividendYield" -> a.dividend_yield
               [] k = "Currency" -> a.currency]

\* dataloader.fetch_extended for a blank ticker
BlankExtended == [k \in ExtKeys |-> IF k = "Ticker" THEN Str("") ELSE None]

FetchOnce(scr, ticker, a) ==
    IF scr = "GetYahooData" THEN fetch_ticker_data_once(ticker, a)
    ELSE fetch_extended_once(ticker, a)

\* a fetch that always makes the second attempt
NeedsRetry_Always(scr, r) == TRUE

\* whether the first result calls for the second attempt
NeedsRetry(scr, r) ==
    IF scr = "GetYahooData"
       THEN \/ r["Error"] # Absent
            \/ /\ ~Truthy(DictGet(r, "Earnings Date"))
               /\ ~Truthy(DictGet(r, "Ex-Dividend Date"))
    ELSE ~(Truthy(r["EarningsDate"]) \/ Truthy(r["ExDividendDate"]))

\* what the fetch returns for the result of its last attempt
\* (fetch_ticker_data pops "Error")
Returned(scr, r) ==
    IF scr = "GetYahooData" THEN [r EXCEPT !["Error"] = Absent] ELSE r

AnswerSamples ==
    IF Detailed
       THEN { Answer(FALSE, t, x, ea, eh) :
                t \in {Absent, Num(50, 1)},
                x \in {None, Num(1733961600, 1)},
                ea \in {EmptyList, DateList("2025-02-20")},
                eh \in {Str(""), Str("Feb 20, 2025")} }
            \cup {Answer(TRUE, Absent, None, EmptyList, Str(""))}
    ELSE { Answer(FALSE, Num(50, 1), None, EmptyList, eh) :
                eh \in {Str(""), Str("Feb 20, 2025")} }
         \cup {Answer(TRUE, Absent, None, EmptyList, Str(""))}

-----------------------------------------------------------------------------
(* dataloader.fetch_fast *)

DLFastCols ==
    { "Ticker", "RefreshTime", "Close", "Open", "Last", "Low", "High", "PE",
      "Change", "ChangePct", "Volume", "VolumeAverage", "Beta" }

DLKeys ==
    { "regularMarketTime", "regularMarketPrice", "regularMarketOpen",
      "regularMarketPreviousClose", "regularMarketDayLow",
      "regularMarketDayHigh", "trailingPE", "regularMarketChange",
      "regularMarketChangePercent", "regularMarketVolume",
      "averageDailyVolume10Day", "averageDailyVolume3Month", "beta" }

\* the field dicts of a quoted symbol in tq.price and tq.summary_detail
PriceSample ==
    [k \in DLKeys |->
        IF k \in {"trailingPE", "averageDailyVolume10Day",
                  "averageDailyVolume3Month", "beta"}
           THEN Absent ELSE Num(10, 1)]

SummarySample ==
    [k \in DLKeys |->
        IF k \in {"trailingPE", "averageDailyVolume10Day", "beta"}
           THEN Num(15, 1) ELSE Absent]

\* the row of a non-blank ticker from its price dict p and summary dict s
DLFastRow(t, p, s) ==
    [c \in DLFastCols |->
        CASE c = "Ticker" -> Str(t)
          [] c = "RefreshTime" -> DictGet(p, "regularMarketTime")
          [] c = "Close" -> DictGet(p, "regularMarketPrice")
          [] c = "Open" -> DictGet(p, "regularMarketOpen")
          [] c = "Last" -> DictGet(p, "regularMarketPreviousClose")
          [] c = "Low" -> DictGet(p, "regularMarketDayLow")
          [] c = "High" -> DictGet(p, "regularMarketDayHigh")
          [] c = "PE" -> PyOr(DictGet(p, "trailingPE"), DictGet(s, "trailingPE"))
          [] c = "Change" -> DictGet(p, "regularMarketChange")
          [] c = "ChangePct" -> DictGet(p, "regularMarketChangePercent")
          [] c = "Volume" -> DictGet(p, "regularMarketVolume")
          [] c = "VolumeAverage" ->
                PyOr(DictGet(p, "averageDailyVolume10Day"),
                 PyOr(DictGet(p, "averageDailyVolume3Month"),
                  PyOr(DictGet(s, "averageDailyVolume10Day"),
                       DictGet(s, "averageDailyVolume3Month"))))
          [] c = "Beta" -> DictGet(s, "beta")]

DLBlankRow == [c \in DLFastCols |-> IF c = "Ticker" THEN Str("") ELSE None]

\* fetch_fast(tickers); quoted are the symbols the provider has field dicts
\* for.  No non-blank ticker: the empty frame.
DLFetchFast(tks, quoted) ==
    IF NonBlank(tks) = <<>> THEN <<>>
    ELSE [i \in 1..Len(tks) |->
             IF tks[i] = "" THEN DLBlankRow
             ELSE IF tks[i] \in quoted
                     THEN DLFastRow(tks[i], PriceSample, SummarySample)
                  ELSE DLFastRow(tks[i], AllAbsent(DLKeys), AllAbsent(DLKeys))]

-----------------------------------------------------------------------------
(* main: the pool, as_completed, and the assembly of the output *)

\* results_map[t] = value on an insertion-ordered dict
DictSet(dict, key, value) ==
    IF \E j \in DOMAIN dict : dict[j].key = key
       THEN [j \in DOMAIN dict |->
                IF dict[j].key = key THEN [key |-> key, value |-> value]
                ELSE dict[j]]
    ELSE Append(dict, [key |-> key, value |-> value])

DictLookup(dict, key) ==
    dict[CHOOSE j \in DOMAIN dict : dict[j].key = key].value

\* list(results_map.values()): the rows in the order of first completion
results_CompletionOrder(tks, rmap) == [j \in 1..Len(rmap) |-> rmap[j].value]

\* GetYahooData: results = [results_map[t] for t in tickers]
results(tks, rmap) == [i \in 1..Len(tks) |-> DictLookup(rmap, tks[i])]

\* the rows of a left merge for the left rows from position i on: per left
\* row, in left order, one row per right row with the same Ticker, in right
\* order (one row with no right columns when there is none)
RECURSIVE MergeFrom(_, _, _)
MergeFrom(left, right, i) ==
    IF i > Len(left) THEN <<>>
    ELSE LET matches ==
                 SelectSeq(right, LAMBDA e : e["Ticker"] = left[i]["Ticker"])
             joined ==
                 IF matches = <<>>
                    THEN << [k \in DLFastCols \cup ExtKeys |->
                                IF k \in DLFastCols THEN left[i][k] ELSE None] >>
                 ELSE [j \in 1..Len(matches) |->
                          [k \in DLFastCols \cup ExtKeys |->
                              IF k \in DLFastCols THEN left[i][k]
                              ELSE matches[j][k]]]
         IN  joined \o MergeFrom(left, right, i + 1)

\* dataloader: df_fast.merge(df_ext, on="Ticker", how="left")
merge(left, right) == MergeFrom(left, right, 1)

Submitted(tks) ==
    [i \in 1..Len(tks) |->
        [ticker |-> tks[i], st |-> "queued", attempts |-> 0,
         first |-> <<>>, result |-> <<>>]]

Busy == {i \in DOMAIN futures : futures[i].st \in {"running", "retry"}}
Retried ==
    {i \in DOMAIN futures : futures[i].st = "retry" \/ futures[i].attempts = 2}

\* dataloader main: the FAST frame is fetched before the pool starts
FetchFast ==
    /\ pc = "fast"
    /\ \E quoted \in SUBSET {t \in Symbols : \E i \in DOMAIN tickers : tickers[i] = t} :
          df_fast' = DLFetchFast(tickers, quoted)
    /\ pc' = "pool"
    /\ UNCHANGED <<tickers, result_rows, futures, completion, results_map,
                   ext_rows, otherTP>>

\* a free worker takes the oldest queued fetch
StartFetch ==
    /\ pc = "pool"
    /\ Cardinality(Busy) < MAX_WORKERS
    /\ \E i \in DOMAIN futures :
          /\ futures[i].st = "queued"
          /\ \A j \in 1..(i - 1) : futures[j].st # "queued"
          /\ futures' = [futures EXCEPT ![i].st = "running"]
    /\ UNCHANGED <<pc, tickers, result_rows, completion, results_map, df_fast,
                   ext_rows, otherTP>>

\* fetch_extended("") returns the blank row without any attempt
FetchBlank ==
    /\ pc = "pool" /\ script = "dataloader"
    /\ \E i \in DOMAIN futures :
          /\ futures[i].st = "running" /\ futures[i].ticker = ""
          /\ futures' = [futures EXCEPT ![i].st = "finished",
                                        ![i].result = BlankExtended]
    /\ UNCHANGED <<pc, tickers, result_rows, completion, results_map, df_fast,
                   ext_rows, otherTP>>

\* the first single attempt of a fetch: its result is returned, or calls
\* for the retry
FirstAttempt ==
    /\ pc = "pool"
    /\ \E i \in DOMAIN futures :
          /\ futures[i].st = "running"
          /\ ~(script = "dataloader" /\ futures[i].ticker = "")
          /\ \E a \in AnswerSamples :
                LET r == FetchOnce(script, futures[i].ticker, a)
                IN  IF NeedsRetry(script, r)
                       THEN /\ Cardinality(Retried) < MaxRetried
                            /\ futures' = [futures EXCEPT ![i].st = "retry",
                                                          ![i].attempts = 1,
                                                          ![i].first = r]
                    ELSE futures' = [futures EXCEPT ![i].st = "finished",
                                                    ![i].attempts = 1,
                                                    ![i].first = r,
                                                    ![i].result = Returned(script, r)]
    /\ UNCHANGED <<pc, tickers, result_rows, completion, results_map, df_fast,
                   ext_rows, otherTP>>

\* the second single attempt, after the retry delay: its result is returned
SecondAttempt ==
    /\ pc = "pool"
    /\ \E i \in DOMAIN futures :
          /\ futures[i].st = "retry"
          /\ \E a \in AnswerSamples :
                futures' = [futures EXCEPT
                              ![i].st = "finished",
                              ![i].attempts = 2,
                              ![i].result =
                                  Returned(script, FetchOnce(script, futures[i].ticker, a))]
    /\ UNCHANGED <<pc, tickers, result_rows, completion, results_map, df_fast,
                   ext_rows, otherTP>>

\* the body of the as_completed loop for a finished fetch
Collect ==
    /\ pc = "pool"
    /\ \E i \in DOMAIN futures :
          /\ futures[i].st = "finished"
          /\ futures' = [futures EXCEPT ![i].st = "collected"]
          /\ completion' = Append(completion, i)
          /\ IF script = "GetYahooData"
                THEN /\ results_map' =
                            DictSet(results_map, futures[i].ticker, futures[i].result)
                     /\ UNCHANGED ext_rows
             ELSE /\ ext_rows' = Append(ext_rows, futures[i].result)
                  /\ UNCHANGED results_map
    /\ UNCHANGED <<pc, tickers, result_rows, df_fast, otherTP>>

AllCollected == \A i \in DOMAIN futures : futures[i].st = "collected"

\* GetYahooData main: the results in the order of the ticker list
Assemble ==
    /\ pc = "pool" /\ script = "GetYahooData"
    /\ AllCollected
    /\ result_rows' = results(tickers, results_map)
    /\ pc' = "done"
    /\ UNCHANGED <<tickers, varsTP, otherTP>>

\* dataloader main: the left merge of the FAST frame with the extended rows
\* (a frame built from no rows has no Ticker column: the merge raises)
Merge ==
    /\ pc = "pool" /\ script = "dataloader"
    /\ AllCollected
    /\ IF ext_rows = <<>>
          THEN pc' = "raised" /\ UNCHANGED result_rows
       ELSE pc' = "done" /\ result_rows' = merge(df_fast, ext_rows)
    /\ UNCHANGED <<tickers, varsTP, otherTP>>

NextGetYahooData ==
    StartFetch \/ FirstAttempt \/ SecondAttempt \/ Collect \/ Assemble

NextDataloader ==
    FetchFast \/ StartFetch \/ FetchBlank \/ FirstAttempt \/ SecondAttempt
    \/ Collect \/ Merge

\* GetYahooData main: the loaded tickers, blanks dropped, duplicates kept
InitGetYahooData ==
    /\ script = "GetYahooData"
    /\ pc = "pool"
    /\ tickers \in SeqsUpTo(Symbols, MaxPoolTickers)
    /\ result_rows = <<>>
    /\ futures = Submitted(tickers)
    /\ completion = <<>> /\ results_map = <<>> /\ df_fast = <<>> /\ ext_rows = <<>>
    /\ IdleLS /\ IdleSA /\ IdleU /\ IdleMain /\ IdleXL

\* the ticker lists of dataloader runs: every short list, and two longer
\* ones that mix a symbol with blank or duplicate entries
MergeTickerLists ==
    SeqsUpTo(Symbols \cup {""}, MaxMergeTickers)
        \cup {<<"A", "", "">>, <<"A", "B", "A">>}

\* dataloader main: read_tickers keeps blank rows as ""
InitDataloader ==
    /\ script = "dataloader"
    /\ pc = "fast"
    /\ tickers \in MergeTickerLists
    /\ result_rows = <<>>
    /\ futures = Submitted(tickers)
    /\ completion = <<>> /\ results_map = <<>> /\ df_fast = <<>> /\ ext_rows = <<>>
    /\ IdleLS /\ IdleSA /\ IdleU /\ IdleMain /\ IdleXL

SpecGetYahooData == InitGetYahooData /\ [][NextGetYahooData]_vars

SpecDataloader == InitDataloader /\ [][NextDataloader]_vars

\* the runs of both scripts
InitEnrichment == InitGetYahooData \/ InitDataloader

NextEnrichment ==
    FetchFast \/ StartFetch \/ FetchBlank \/ FirstAttempt \/ SecondAttempt
    \/ Collect \/ Assemble \/ Merge

SpecEnrichment == InitEnrichment /\ [][NextEnrichment]_vars

-----------------------------------------------------------------------------
(* GetYahooData / dataloader: properties *)

\* C9: when GetYahooData main has assembled its results, there is one row
\* per loaded ticker, row i is a row fetched for the ticker at input
\* position i, whatever the order in which the fetches completed.
C9_ResultsInInputOrder ==
    (script = "GetYahooData" /\ pc = "done") =>
        /\ Len(result_rows) = Len(tickers)
        /\ \A i \in DOMAIN tickers :
              /\ result_rows[i]["Ticker"] = Str(tickers[i])
              /\ \E j \in DOMAIN futures :
                    /\ futures[j].ticker = tickers[i]
                    /\ result_rows[i] = futures[j].result

\* C9 witness: a finished run over a list with a duplicate and two symbols
\* in which the last submitted fetch was the first to be collected
C9_Witness ==
    /\ script = "GetYahooData" /\ pc = "done"
    /\ Len(tickers) = 3
    /\ completion[1] = 3
    /\ \E i, j \in DOMAIN tickers : i < j /\ tickers[i] = tickers[j]
    /\ \E i, j \in DOMAIN tickers : tickers[i] # tickers[j]

\* C10: the merged output of dataloader main has exactly one row per input
\* ticker, in input order, blank and duplicate entries included.
C10_MergedOneRowPerInput ==
    (script = "dataloader" /\ pc = "done") =>
        /\ Len(result_rows) = Len(tickers)
        /\ \A i \in DOMAIN tickers : result_rows[i]["Ticker"] = Str(tickers[i])

-----------------------------------------------------------------------------
(* live_session family: read_tickers, the ticker column of table RTData *)

\* data rows of the input table
MaxRows == 2

\* characters of a text cell
MaxCellLen == 2

\* columns of the input sheet
SheetCols == 2

Whitespace == {" "}
Chars == Whitespace \cup {"A", "a"}

\* a cell of the sheet: empty (None), a text as its characters, or a number
\* as the characters str() gives for it
NullCell == [k |-> "none", chars |-> <<>>]
TextCell(chars) == [k |-> "str", chars |-> chars]
IntCell(digits) == [k |-> "int", chars |-> digits]

\* the characters of a text as a string
RECURSIVE Join(_)
Join(chars) == IF chars = <<>> THEN "" ELSE Head(chars) \o Join(Tail(chars))

\* str.lstrip / str.rstrip / str.strip on the characters of a text
RECURSIVE lstrip(_)
lstrip(chars) ==
    IF chars # <<>> /\ Head(chars) \in Whitespace THEN lstrip(Tail(chars))
    ELSE chars

RECURSIVE rstrip(_)
rstrip(chars) ==
    IF chars # <<>> /\ chars[Len(chars)] \in Whitespace
       THEN rstrip(SubSeq(chars, 1, Len(chars) - 1))
    ELSE chars

\* strip that only removes leading whitespace
strip_LeftOnly(chars) == lstrip(chars)

strip(chars) == rstrip(lstrip(chars))

TickerHeader == <<"Ticker_Symbol">>

\* the header cells of the table, left to right
TableHeaders(wb) == SubSeq(wb.headers, wb.min_col, wb.max_col)

\* live_session.py: headers.index(RT_TICKER_COL_NAME) + min_col; 0 when the
\* name is not among the table's headers
TickerColLiveSession(wb) ==
    LET hit == {c \in wb.min_col..wb.max_col :
                   wb.headers[c] = TextCell(TickerHeader)}
    IN  IF hit = {} THEN 0 ELSE CHOOSE c \in hit : \A c2 \in hit : c <= c2

\* live_session_GOOD.py: the first cell of the sheet's header row whose
\* stripped text is the name; 0 when there is none
TickerColGOOD(wb) ==
    LET hit == {c \in DOMAIN wb.headers :
                   wb.headers[c].k # "none"
                   /\ strip(wb.headers[c].chars) = TickerHeader}
    IN  IF hit = {} THEN 0 ELSE CHOOSE c \in hit : \A c2 \in hit : c <= c2

\* live_session_Strip.py: pandas reads the sheet's first row as the column
\* names and the name is looked up as it is; 0 when it is not a column
TickerColStrip(wb) ==
    LET hit == {c \in DOMAIN wb.headers : wb.headers[c] = TextCell(TickerHeader)}
    IN  IF hit = {} THEN 0 ELSE CHOOSE c \in hit : \A c2 \in hit : c <= c2

TickerCol(v, wb) ==
    IF v = "GOOD" THEN TickerColGOOD(wb)
    ELSE IF v = "Strip" THEN TickerColStrip(wb)
    ELSE TickerColLiveSession(wb)

\* the entry read_tickers appends for cell value c
Entry(v, c) ==
    IF v \in {"GOOD", "Strip"}
       THEN IF c.k = "none" \/ (c.k = "str" /\ strip(c.chars) = <<>>) THEN None
            ELSE Str(Join(strip(c.chars)))
    ELSE IF c.k = "none" THEN Str("") ELSE Str(Join(strip(c.chars)))

\* read_tickers(): raised names the exception ("" when it returns), names
\* the items its message names, tickers the list it returns
read_tickers(v, wb) ==
    LET failure(exc, items) == [raised |-> exc, names |-> items, tickers |-> <<>>]
        key == IF v = "GOOD" THEN "KeyError" ELSE "ValueError"
    IN  IF ~wb.exists THEN failure("FileNotFoundError", {"workbook"})
        ELSE IF ~wb.sheet
                THEN failure(key, {"sheet", "workbook"})
        ELSE IF v # "Strip" /\ ~wb.table
                THEN failure(key, {"table", "sheet"})
        ELSE IF TickerCol(v, wb) = 0
                THEN IF v = "Strip"
                        THEN failure("KeyError", {"column", "sheet", "workbook"})
                     ELSE failure(key, {"column", "table"})
        ELSE [raised |-> "", names |-> {},
              tickers |-> [r \in 1..Len(wb.rows) |->
                              Entry(v, wb.rows[r][TickerCol(v, wb)])]]

\* the ticker names of the returned list, "" for the blank placeholder
Names(entries) ==
    [i \in DOMAIN entries |-> IF entries[i].k = "none" THEN "" ELSE entries[i].s]

\* main: tickers = read_tickers(), it returns
ReadTickers ==
    /\ pc = "read_tickers"
    /\ read_tickers(variant, workbook).raised = ""
    /\ loaded' = read_tickers(variant, workbook).tickers
    /\ tickers' = Names(read_tickers(variant, workbook).tickers)
    /\ pc' = "fetch_fast"
    /\ UNCHANGED <<result_rows, variant, raw_price, raw_sd, workbook, slow,
                   raw_cal, written, fetches, error, otherMain>>

\* a main that catches the exception and goes on without tickers
ReadTickersRaises_Caught ==
    /\ pc = "read_tickers"
    /\ read_tickers(variant, workbook).raised # ""
    /\ pc' = "fetch_fast"
    /\ UNCHANGED <<tickers, result_rows, variant, raw_price, raw_sd, workbook,
                   loaded, slow, raw_cal, written, fetches, error, otherMain>>

\* main: read_tickers() raises; nothing in main catches it
ReadTickersRaises ==
    /\ pc = "read_tickers"
    /\ read_tickers(variant, workbook).raised # ""
    /\ error' = [raised |-> read_tickers(variant, workbook).raised,
                  names |-> read_tickers(variant, workbook).names]
    /\ pc' = "raised"
    /\ UNCHANGED <<tickers, result_rows, variant, raw_price, raw_sd, workbook,
                   loaded, slow, raw_cal, written, fetches, otherMain>>

NextReadTickers == ReadTickers \/ ReadTickersRaises

-----------------------------------------------------------------------------
(* the input workbooks of a run *)

CellTexts == SeqsUpTo(Chars, MaxCellLen)

Cells == {TextCell(c) : c \in CellTexts} \cup {NullCell, IntCell(<<"7">>)}

HeaderCells ==
    { TextCell(TickerHeader), TextCell(<<" ">> \o TickerHeader),
      TextCell(<<"Name">>) }

\* a sheet with the given header row and table span whose column col holds
\* the cells column; the other cells hold a filler text
Sheet(headers, min_col, max_col, col, column) ==
    [exists |-> TRUE, sheet |-> TRUE, table |-> TRUE,
     headers |-> headers, min_col |-> min_col, max_col |-> max_col,
     rows |-> [r \in 1..Len(column) |->
                  [c \in 1..SheetCols |->
                      IF c = col THEN column[r] ELSE TextCell(<<"N">>)]]]

\* the workbook file, the sheet or the table is missing
Without(wb, item) ==
    CASE item = "workbook" -> [wb EXCEPT !.exists = FALSE]
      [] item = "sheet" -> [wb EXCEPT !.sheet = FALSE]
      [] item = "table" -> [wb EXCEPT !.table = FALSE]
      [] OTHER -> wb

\* every content of the ticker column, under the usual layout
ColumnWorkbooks ==
    { Sheet([c \in 1..SheetCols |->
                IF c = 1 THEN TextCell(TickerHeader) ELSE TextCell(<<"Name">>)],
            1, SheetCols, 1, column) :
        column \in SeqsUpTo(Cells, MaxRows) }

\* every layout of the header row and of the table span, and every missing
\* item, over one sample column put under the first header that names the
\* ticker column
LayoutWorkbooks ==
    { Without(Sheet(headers, span[1], span[2],
                    IF \E c \in 1..SheetCols : strip(headers[c].chars) = TickerHeader
                       THEN CHOOSE c \in 1..SheetCols :
                               /\ strip(headers[c].chars) = TickerHeader
                               /\ \A c2 \in 1..(c - 1) :
                                     strip(headers[c2].chars) # TickerHeader
                    ELSE 1,
                    <<TextCell(<<" ", "A">>), NullCell>>),
              item) :
        headers \in [1..SheetCols -> HeaderCells],
        span \in {s \in (1..SheetCols) \X (1..SheetCols) : s[1] <= s[2]},
        item \in {"", "workbook", "sheet", "table"} }

InitReadTickers ==
    /\ script = "live_session"
    /\ variant \in {"live_session", "GOOD"}
    /\ pc = "read_tickers"
    /\ workbook \in ColumnWorkbooks \cup LayoutWorkbooks
    /\ tickers = <<>> /\ result_rows = <<>>
    /\ raw_price = <<>> /\ raw_sd = <<>>
    /\ loaded = <<>> /\ slow = FALSE /\ raw_cal = <<>>
    /\ written = NoOutput /\ fetches = 0 /\ error = NoError
    /\ IdleSA /\ IdleU /\ IdleTP /\ IdleXL

SpecReadTickers == InitReadTickers /\ [][NextReadTickers]_vars

-----------------------------------------------------------------------------
(* read_tickers: properties *)

\* the text of a cell without its leading and trailing whitespace, stated
\* on the text: the middle part of every split into whitespace, text,
\* whitespace in which the text neither starts nor ends with whitespace
Trimmed(chars) ==
    { SubSeq(chars, s[1] + 1, s[2]) :
        s \in { s \in (0..Len(chars)) \X (0..Len(chars)) :
                  /\ s[1] <= s[2]
                  /\ \A p \in 1..s[1] : chars[p] \in Whitespace
                  /\ \A p \in (s[2] + 1)..Len(chars) : chars[p] \in Whitespace
                  /\ s[1] < s[2] =>
                        /\ chars[s[1] + 1] \notin Whitespace
                        /\ chars[s[2]] \notin Whitespace } }

\* the blank placeholder of a variant
Placeholder(v) == IF v = "live_session" THEN Str("") ELSE None

\* C11: when read_tickers returns, the list has one entry per data row of
\* the ticker column, in row order; an empty, whitespace-only or null cell
\* gives the blank placeholder, any other cell its trimmed text, case kept.
C11_OneEntryPerRow ==
    (pc = "fetch_fast" /\ script = "live_session") =>
        /\ Len(loaded) = Len(workbook.rows)
        /\ \A r \in DOMAIN workbook.rows :
              LET c == workbook.rows[r][TickerCol(variant, workbook)]
              IN  IF c.k = "none" \/ <<>> \in Trimmed(c.chars)
                     THEN loaded[r] = Placeholder(variant)
                  ELSE /\ Trimmed(c.chars) # {}
                       /\ \A mid \in Trimmed(c.chars) : loaded[r] = Str(Join(mid))

\* C11 witness: a list read from a column with a null cell and a text cell
\* with surrounding whitespace and a lower-case letter
C11_Witness ==
    /\ pc = "fetch_fast" /\ script = "live_session"
    /\ Len(loaded) = 2
    /\ workbook.rows[1][1] = NullCell
    /\ workbook.rows[2][1] = TextCell(<<" ", "a">>)
    /\ loaded[2] = Str("a")

\* a date field that holds a text
NonEmpty(v) == v.k \notin {"none", "absent"} /\ v # Str("")

\* the first attempt returned without error and with an earnings date or an
\* ex-dividend date
FirstHasDate(scr, r) ==
    IF scr = "GetYahooData"
       THEN /\ r["Error"] = Absent
            /\ NonEmpty(r["Earnings Date"]) \/ NonEmpty(r["Ex-Dividend Date"])
    ELSE NonEmpty(r["EarningsDate"]) \/ NonEmpty(r["ExDividendDate"])

\* C20: fetch_ticker_data and fetch_extended make at most two single
\* attempts per ticker, exactly one when the first attempt returned without
\* error and with a non-empty earnings or ex-dividend date, and
\* fetch_extended makes none for a blank ticker.
C20_BoundedRetryOfOne ==
    script \in {"GetYahooData", "dataloader"} =>
        \A i \in DOMAIN futures :
            LET f == futures[i]
                ended == f.st \in {"finished", "collected"}
            IN  /\ f.attempts \in 0..2
                /\ (script = "dataloader" /\ f.ticker = "") => f.attempts = 0
                /\ (ended /\ ~(script = "dataloader" /\ f.ticker = "")) =>
                      /\ f.attempts >= 1
                      /\ FirstHasDate(script, f.first) => f.attempts = 1

\* C20 witness: a dataloader run in which a blank ticker ended without an
\* attempt and a ticker ended after one attempt that had a date
C20_Witness ==
    /\ script = "dataloader"
    /\ \E i, j \in DOMAIN futures :
          /\ futures[i].ticker = "" /\ futures[i].st = "collected"
          /\ futures[i].attempts = 0
          /\ futures[j].st = "collected" /\ futures[j].attempts = 1
          /\ FirstHasDate(script, futures[j].first)

\* the data fields of an enrichment row
EnrichmentFields(scr) ==
    IF scr = "GetYahooData" THEN GYKeys \ {"Ticker", "Error"}
    ELSE ExtKeys \ {"Ticker"}

\* C30: the enrichment retry never loses data: in fetch_ticker_data and
\* fetch_extended every non-empty field value obtained by the first attempt
\* is still present in the returned row, whatever the second attempt
\* returned.
C30_RetryKeepsFirstValues ==
    script \in {"GetYahooData", "dataloader"} =>
        \A i \in DOMAIN futures :
            LET f == futures[i]
            IN  (f.st \in {"finished", "collected"} /\ f.attempts >= 1) =>
                    \A k \in EnrichmentFields(script) :
                        NonEmpty(f.first[k]) => f.result[k] = f.first[k]

\* C30 for the fetches that made one attempt only
C30_SingleAttemptKept ==
    script \in {"GetYahooData", "dataloader"} =>
        \A i \in DOMAIN futures :
            LET f == futures[i]
            IN  (f.st \in {"finished", "collected"} /\ f.attempts = 1) =>
                    \A k \in EnrichmentFields(script) :
                        f.result[k] = f.first[k]

-----------------------------------------------------------------------------
(* Stock_Data_A_RetrySafe: the chunked fetch with fetch_with_retry (the loop
   of Stock_Data_A without last_error: GetterReturnsOther and GetterRaises),
   dict_to_df, the left merges on Ticker, the cleanup and the write *)

\* alphabetical order of the symbols
SortedSymbols == <<"A", "B">>

\* the entries of a list without repetitions, in order of first occurrence
Distinct(seq) ==
    LET first == {i \in DOMAIN seq : \A j \in 1..(i - 1) : seq[j] # seq[i]}
        idx == [k \in 1..Cardinality(first) |->
                   CHOOSE i \in first :
                       Cardinality({j \in first : j < i}) = k - 1]
    IN  [k \in DOMAIN idx |-> seq[idx[k]]]

\* dict_to_df: the Ticker column of the frame.  None gives a frame without
\* rows, a mapping one row per key; the provider keys a mapping by the
\* symbols asked for, in their order.
dict_to_df(d, chunk) ==
    IF d.kind # "dict" THEN <<>>
    ELSE SelectSeq(Distinct(chunk), LAMBDA sym : d.map[sym] = "dict")

\* left.merge(right, on="Ticker", how="left"): each left row, once per
\* right row with its Ticker, once when there is none; module m is noted on
\* the matched rows
RECURSIVE MergeLeft(_, _, _)
MergeLeft(left, right, m) ==
    IF left = <<>> THEN <<>>
    ELSE LET l == Head(left)
             hits == SelectSeq(right, LAMBDA t : t = l.Ticker)
         IN  (IF hits = <<>> THEN <<l>>
              ELSE [i \in DOMAIN hits |->
                       [l EXCEPT !.modules = @ \cup {m}]])
             \o MergeLeft(Tail(left), right, m)

\* drop_duplicates(subset=["Ticker"]).sort_values("Ticker")
FinalCleanup(df) ==
    LET firstOf(sym) ==
            df[CHOOSE i \in DOMAIN df :
                   /\ df[i].Ticker = sym
                   /\ \A j \in 1..(i - 1) : df[j].Ticker # sym]
        present == SelectSeq(SortedSymbols,
                             LAMBDA sym : \E i \in DOMAIN df : df[i].Ticker = sym)
    IN  [k \in DOMAIN present |-> firstOf(present[k])]

\* fetch_with_retry: getter() returns a mapping, which may lack tickers of
\* the chunk.  Mappings that hold an error string for a symbol are left out
\* of this script's runs.
RetrySafeReturnsDict ==
    /\ pc = "fetch" /\ mod \in DOMAIN Modules
    /\ \E m \in [Symbols -> {"dict", "absent"}] :
          /\ \A sym \in Symbols \ ChunkSyms(chunk_start) : m[sym] = "absent"
          /\ faults + Cardinality(Faulty(m)) <= MaxFaults
          /\ faults' = faults + Cardinality(Faulty(m))
          /\ data' = [data EXCEPT ![Modules[mod]] = DictData(m)]
    /\ calls' = [calls EXCEPT ![Modules[mod]] = @ + 1]
    /\ outcomes' = [outcomes EXCEPT ![Modules[mod]] =
                        Append(@, [kind |-> "dict", cause |-> ""])]
    /\ mod' = mod + 1
    /\ attempt' = 1
    /\ UNCHANGED <<pc, tickers, result_rows, chunk_start, last_error, err, unknown,
                   fetched, frames, otherSA>>

\* the end of the chunk's loop body: the four frames are appended
AppendFrames ==
    /\ pc = "fetch" /\ mod = Len(Modules) + 1
    /\ frames' = [m \in ModuleSet |->
                     frames[m] \o dict_to_df(data[m], Chunk(chunk_start))]
    /\ fetched' = Append(fetched, [data |-> data, err |-> err, calls |-> calls,
                                   outcomes |-> outcomes])
    /\ outcomes' = [m \in ModuleSet |-> <<>>]
    /\ chunk_start' = chunk_start + CHUNK_SIZE
    /\ calls' = [m \in ModuleSet |-> 0]
    /\ mod' = 1
    /\ pc' = IF chunk_start + CHUNK_SIZE > Len(tickers) THEN "merge" ELSE "fetch"
    /\ UNCHANGED <<tickers, result_rows, attempt, last_error, data, err, unknown,
                   faults, otherSA>>

\* the merges of the concatenated frames, from price_df, and the cleanup
MergeDatasets ==
    /\ pc = "merge"
    /\ LET price_df == [i \in DOMAIN frames["price"] |->
                           [Ticker |-> frames["price"][i], modules |-> {"price"}]]
           df1 == MergeLeft(price_df, frames["summary"], "summary")
           df2 == MergeLeft(df1, frames["financial"], "financial")
           df3 == MergeLeft(df2, frames["calendar"], "calendar")
       IN  result_rows' = FinalCleanup(df3)
    /\ pc' = "write"
    /\ UNCHANGED <<tickers, chunk_start, mod, attempt, last_error, data, err, calls,
                   unknown, faults, fetched, outcomes, frames, otherSA>>

\* df.to_excel inside the ExcelWriter succeeds
WriteExcel ==
    /\ pc = "write"
    /\ written' = [saved |-> TRUE, rows |-> result_rows]
    /\ pc' = "summary"
    /\ UNCHANGED <<tickers, result_rows, script, varsLS, varsSA, varsU, varsTP,
                   workbook, loaded, slow, raw_cal, fetches, error, varsXL>>

\* the ExcelWriter raises (the workbook is open elsewhere, the disk is
\* full): except Exception prints the traceback
WriteExcelRaises ==
    /\ pc = "write"
    /\ pc' = "write_failed"
    /\ UNCHANGED <<tickers, result_rows, written, otherSA>>
    /\ UNCHANGED varsSA

\* the summary is printed and the script ends
Summary ==
    /\ pc \in {"summary", "write_failed"}
    /\ pc' = "done"
    /\ UNCHANGED <<tickers, result_rows, written, otherSA>>
    /\ UNCHANGED varsSA

NextRetrySafe ==
    \/ RetrySafeReturnsDict \/ GetterReturnsOther \/ GetterRaises
    \/ AppendFrames \/ MergeDatasets \/ WriteExcel \/ WriteExcelRaises
    \/ Summary

\* the ticker column as loaded: not empty (the script raises otherwise), no
\* blank entries (they are dropped), duplicates possible
InitRetrySafe ==
    /\ script = "Stock_Data_A_RetrySafe"
    /\ pc = "fetch"
    /\ tickers \in SeqsUpTo(Symbols, MaxChunkedTickers) \ {<<>>}
    /\ result_rows = <<>>
    /\ chunk_start = 1 /\ mod = 1 /\ attempt = 1 /\ last_error = ""
    /\ data = [m \in ModuleSet |-> NoneData]
    /\ err = [m \in ModuleSet |-> ""]
    /\ calls = [m \in ModuleSet |-> 0]
    /\ outcomes = [m \in ModuleSet |-> <<>>]
    /\ unknown = {}
    /\ faults = 0
    /\ fetched = <<>>
    /\ frames = [m \in ModuleSet |-> <<>>]
    /\ IdleLS /\ IdleU /\ IdleTP /\ IdleMain /\ IdleXL

SpecRetrySafe == InitRetrySafe /\ [][NextRetrySafe]_vars

\* C15: a failure to write the output workbook is fatal: a run whose write
\* raised does not end as a normal run, so a run that ends normally has
\* saved its output.
C15_WriteFailureFatal ==
    (script = "Stock_Data_A_RetrySafe" /\ pc = "done") => written.saved

\* C16: a completed run writes one row per loaded ticker, in particular for
\* tickers whose modules failed, which are absent from a module's mapping,
\* or which occur more than once in the input.
C16_OneRowPerLoadedTicker ==
    (script = "Stock_Data_A_RetrySafe" /\ pc = "done" /\ written.saved) =>
        /\ Len(written.rows) = Len(tickers)
        /\ \A i \in DOMAIN tickers :
              \E r \in DOMAIN written.rows : written.rows[r].Ticker = tickers[i]

-----------------------------------------------------------------------------
(* main of the live_session family: read_tickers, fetch_fast, the optional
   slow stage, write_raw_excel *)

MainVariants == {"live_session", "GOOD", "Strip"}

\* the missing value pandas fills a reindexed frame with
NaN == Val("nan", 0, 1, "")

\* the FAST columns of the frame fetch_fast returns
FrameCols(v) == IF v = "GOOD" THEN FAST_COLS_BEST ELSE FAST_COLS

\* fetch_fast as main calls it: queried tells whether the provider was
\* queried, raised whether the call raised, rows the frame it returned.
\* live_session_GOOD.py builds its rows as live_session_BEST.py does.
fetch_fast(v, tks, price, sd) ==
    LET fv == IF v = "GOOD" THEN "BEST" ELSE v
    IN  IF NonBlank(tks) = <<>>
           THEN [raised |-> FALSE, queried |-> FALSE, rows |-> <<>>]
        ELSE IF FetchFastRaises(fv, price, sd)
           THEN [raised |-> TRUE, queried |-> TRUE, rows |-> <<>>]
        ELSE [raised |-> FALSE, queried |-> TRUE,
              rows |-> FastTable(fv, tks, price, sd)]

\* df[col] = series, for a series of n values indexed 0..n-1: the values are
\* aligned on the frame's index, and a frame without rows first takes the
\* index of the series, its other columns filled with NaN
AssignColumn(v, frame, n) ==
    IF Len(frame) = 0 /\ n > 0
       THEN [i \in 1..n |-> [col \in FrameCols(v) |-> NaN]]
    ELSE frame

\* live_session_Strip.py fetch_slow: cal.get("earnings") on the calendar
\* entry of a non-blank ticker raises when the entry is a string, as
\* summary_detail.get does when the module response is one
FetchSlowRaises(tks, sd, cal) ==
    \/ sd.kind = "str"
    \/ \E i \in DOMAIN tks : tks[i] # "" /\ cal[tks[i]] = "str"

\* the slow stage of main on the frame fetch_fast returned.
\* live_session.py: the stub frame has one row per ticker and its columns
\* are assigned to the frame.  live_session_GOOD.py: fetch_slow returns one
\* row per ticker (a frame without columns for an empty list, whose columns
\* are then set to None) and its columns are assigned to the frame.
\* live_session_Strip.py: the slow columns are set to None and filled cell
\* by cell from fetch_slow's rows.
fetch_slow(v, frame, tks, sd, cal) ==
    IF v = "live_session"
       THEN [raised |-> FALSE, queried |-> FALSE,
             rows |-> AssignColumn(v, frame, Len(tks))]
    ELSE IF v = "GOOD"
       THEN IF NonBlank(tks) = <<>>
               THEN [raised |-> FALSE, queried |-> FALSE,
                     rows |-> AssignColumn(v, frame, Len(tks))]
            ELSE IF sd.kind = "str"
               THEN [raised |-> TRUE, queried |-> TRUE, rows |-> frame]
            ELSE [raised |-> FALSE, queried |-> TRUE,
                  rows |-> AssignColumn(v, frame, Len(tks))]
    ELSE IF NonBlank(tks) = <<>>
       THEN [raised |-> FALSE, queried |-> FALSE, rows |-> frame]
    ELSE IF FetchSlowRaises(tks, sd, cal)
       THEN [raised |-> TRUE, queried |-> TRUE, rows |-> frame]
    ELSE [raised |-> FALSE, queried |-> TRUE, rows |-> frame]

Queries(r) == IF r.queried THEN 1 ELSE 0

\* main: df_fast = fetch_fast(tickers)
MainFetchFast ==
    /\ pc = "fetch_fast"
    /\ LET r == fetch_fast(variant, tickers, raw_price, raw_sd)
       IN  /\ fetches' = fetches + Queries(r)
           /\ IF r.raised
                 THEN /\ pc' = "raised"
                      /\ error' = [raised |-> "AttributeError", names |-> {}]
                      /\ UNCHANGED result_rows
              ELSE /\ pc' = IF slow THEN "slow" ELSE "write"
                   /\ result_rows' = r.rows
                   /\ UNCHANGED error
    /\ UNCHANGED <<tickers, variant, raw_price, raw_sd, workbook, loaded, slow,
                   raw_cal, written, otherMain>>

\* main: if args.slow, the slow frame is fetched and merged into df
MainSlow ==
    /\ pc = "slow"
    /\ LET r == fetch_slow(variant, result_rows, tickers, raw_sd, raw_cal)
       IN  /\ fetches' = fetches + Queries(r)
           /\ IF r.raised
                 THEN /\ pc' = "raised"
                      /\ error' = [raised |-> "AttributeError", names |-> {}]
                      /\ UNCHANGED result_rows
              ELSE /\ pc' = "write"
                   /\ result_rows' = r.rows
                   /\ UNCHANGED error
    /\ UNCHANGED <<tickers, variant, raw_price, raw_sd, workbook, loaded, slow,
                   raw_cal, written, otherMain>>

\* main: write_raw_excel(df), one sheet row per frame row, then wb.save
MainWrite ==
    /\ pc = "write"
    /\ written' = [saved |-> TRUE, rows |-> result_rows]
    /\ pc' = "done"
    /\ UNCHANGED <<tickers, result_rows, variant, raw_price, raw_sd, workbook,
                   loaded, slow, raw_cal, fetches, error, otherMain>>

NextMain ==
    ReadTickers \/ ReadTickersRaises \/ MainFetchFast \/ MainSlow \/ MainWrite

\* the cells of a ticker column whose texts name the symbols
MainCells ==
    {TextCell(<<"A">>), TextCell(<<" ", "B">>), TextCell(<<" ">>), NullCell}

\* the usual layout with every column of up to MaxRows such cells, and the
\* layouts in which the workbook, the sheet, the table or the column is missing
MainWorkbooks ==
    LET usual(column) ==
            Sheet([c \in 1..SheetCols |->
                      IF c = 1 THEN TextCell(TickerHeader)
                      ELSE TextCell(<<"Name">>)],
                  1, SheetCols, 1, column)
        sample == <<TextCell(<<"A">>), NullCell>>
    IN  {usual(column) : column \in SeqsUpTo(MainCells, MaxRows)}
        \cup {Without(usual(sample), item) : item \in {"workbook", "sheet", "table"}}
        \cup {Sheet([c \in 1..SheetCols |-> TextCell(<<"Name">>)],
                    1, SheetCols, 1, sample)}

MainResponses ==
    { StrResponse,
      DictResponse([s \in Symbols |-> DictEntry(SampleQuote)]),
      DictResponse([s \in Symbols |->
                       IF s = "A" THEN DictEntry(SampleQuote) ELSE StrEntry]) }

InitMain ==
    /\ script = "live_session"
    /\ variant \in MainVariants
    /\ pc = "read_tickers"
    /\ workbook \in MainWorkbooks
    /\ slow \in BOOLEAN
    /\ raw_price \in MainResponses
    /\ raw_sd \in MainResponses
    /\ raw_cal \in [Symbols -> {"dict", "str"}]
    /\ tickers = <<>> /\ result_rows = <<>>
    /\ loaded = <<>> /\ written = NoOutput /\ fetches = 0 /\ error = NoError
    /\ IdleSA /\ IdleU /\ IdleTP /\ IdleXL

SpecMain == InitMain /\ [][NextMain]_vars

-----------------------------------------------------------------------------
(* main: properties *)

\* the item of the input that is missing, "" when read_tickers finds all
MissingItem(v, wb) ==
    IF ~wb.exists THEN "workbook"
    ELSE IF ~wb.sheet THEN "sheet"
    ELSE IF v # "Strip" /\ ~wb.table THEN "table"
    ELSE IF TickerCol(v, wb) = 0 THEN "column"
    ELSE ""

\* C12: when the input workbook, sheet, table or ticker column is absent,
\* read_tickers fails with an error that names the missing item and the run
\* aborts: it never gets past read_tickers, no provider fetch is performed
\* and no output workbook is written.
C12_ReadFailureAborts ==
    (script = "live_session" /\ MissingItem(variant, workbook) # "") =>
        /\ pc \in {"read_tickers", "raised"}
        /\ pc = "raised" =>
              /\ error.raised # ""
              /\ MissingItem(variant, workbook) \in error.names
        /\ fetches = 0
        /\ written = NoOutput

\* C12 witness: read_tickers of live_session.py has raised on a workbook
\* whose table lacks the ticker column
C12_Witness ==
    /\ script = "live_session" /\ variant = "live_session"
    /\ pc = "raised"
    /\ MissingItem(variant, workbook) = "column"
    /\ error.raised = "ValueError"

\* main as a whole: the output of a run with the given --slow flag
main(v, flag, tks, price, sd, cal) ==
    LET f == fetch_fast(v, tks, price, sd)
        e == fetch_slow(v, f.rows, tks, sd, cal)
    IN  IF f.raised THEN NoOutput
        ELSE IF ~flag THEN [saved |-> TRUE, rows |-> f.rows]
        ELSE IF e.raised THEN NoOutput
        ELSE [saved |-> TRUE, rows |-> e.rows]

\* the FAST columns the three files share, row by row
FastPart(rows) ==
    [i \in DOMAIN rows |-> [col \in FAST_COLS_BEST |-> rows[i][col]]]

\* C14: for the same input tickers and the same provider responses, the
\* FAST columns and the number and order of the rows main writes are the
\* same with and without --slow: when a run has ended, the run with the
\* opposite flag writes an output exactly when this one did, with the same
\* FAST part.
C14_SlowSkippable ==
    (script = "live_session" /\ pc \in {"done", "raised"}
     /\ MissingItem(variant, workbook) = "") =>
        LET other == main(variant, ~slow, tickers, raw_price, raw_sd, raw_cal)
        IN  /\ written.saved = other.saved
            /\ FastPart(written.rows) = FastPart(other.rows)

\* C14, live_session.py alone, runs that write an output: the number of
\* rows written does not depend on --slow
C14_SameRowCount ==
    (script = "live_session" /\ variant = "live_session" /\ pc = "done") =>
        Len(written.rows)
            = Len(main(variant, ~slow, tickers, raw_price, raw_sd, raw_cal).rows)

\* C14, live_session_Strip.py alone: a run with --slow writes an output
\* whenever the run without it does
C14_StripSlowWrites ==
    (script = "live_session" /\ variant = "Strip" /\ slow /\ pc = "raised"
     /\ MissingItem(variant, workbook) = "") =>
        ~main(variant, FALSE, tickers, raw_price, raw_sd, raw_cal).saved

-----------------------------------------------------------------------------
(* live_session_SUPER.py: main = read_tickers, fetch_fast, the optional slow *)
(* stage, the missing columns set to None, write_raw_excel                  *)

SuperHeader == <<"Ticker">>

\* SLOW_COLS without Ticker
SLOW_COLS == {"Beta", "1YT", "Ddate", "EarningDate", "RepDiv"}

\* COLUMNS: the final column order of the output sheet
COLUMNS == FAST_COLS \cup SLOW_COLS

\* read_tickers: pd.read_excel takes the first row as the column names; a
\* NaN cell gives "", any other cell str(v).strip()
read_tickers_SUPER(wb) ==
    LET hit == {c \in DOMAIN wb.headers : wb.headers[c] = TextCell(SuperHeader)}
        col == CHOOSE c \in hit : \A c2 \in hit : c <= c2
    IN  IF ~wb.exists
           THEN [raised |-> "FileNotFoundError", tickers |-> <<>>]
        ELSE IF ~wb.sheet \/ hit = {}
           THEN [raised |-> "ValueError", tickers |-> <<>>]
        ELSE [raised |-> "",
              tickers |-> [r \in 1..Len(wb.rows) |->
                              IF wb.rows[r][col].k = "none" THEN ""
                              ELSE Join(strip(wb.rows[r][col].chars))]]

\* _extract_time on the values the provider samples hold
_extract_time(val) == IF IsNum(val) THEN FromTimestamp(val) ELSE None

\* fetch_fast: the row built for symbol s
RowSUPER(s, p, d) ==
    [col \in FAST_COLS |->
        IF col = "RefreshTime"
           THEN _extract_time(PyOr(DictGet(p, "regularMarketTime"),
                                   DictGet(d, "regularMarketTime")))
        ELSE RowBEST(s, p, d)[col]]

\* fetch_fast: an empty frame when no ticker is non-blank; otherwise one row
\* per input entry, the empty row with Ticker "" for a blank one.  d.get on
\* a module response that is a string raises AttributeError.
fetch_fast_SUPER(tks, price, sd) ==
    IF NonBlank(tks) = <<>> THEN [raised |-> FALSE, rows |-> <<>>]
    ELSE IF price.kind = "str" \/ sd.kind = "str"
       THEN [raised |-> TRUE, rows |-> <<>>]
    ELSE [raised |-> FALSE,
          rows |-> [i \in 1..Len(tks) |->
                      IF tks[i] = ""
                         THEN [col \in FAST_COLS |->
                                  IF col = "Ticker" THEN Str("") ELSE None]
                      ELSE RowSUPER(tks[i], _get_dict(price, tks[i]),
                                    _get_dict(sd, tks[i]))]]

\* for col in COLUMNS: if col not in df.columns: df[col] = None
EnsureColumns(frame) ==
    [i \in DOMAIN frame |->
        [col \in COLUMNS |->
            IF col \in DOMAIN frame[i] THEN frame[i][col] ELSE None]]

\* main: tickers = read_tickers()
SuperReadTickers ==
    /\ pc = "read_tickers"
    /\ LET r == read_tickers_SUPER(workbook)
       IN  IF r.raised # ""
              THEN /\ pc' = "raised"
                   /\ error' = [raised |-> r.raised, names |-> {}]
                   /\ UNCHANGED tickers
           ELSE /\ pc' = "fetch_fast"
                /\ tickers' = r.tickers
                /\ UNCHANGED error
    /\ UNCHANGED <<result_rows, variant, raw_price, raw_sd, workbook, loaded,
                   slow, raw_cal, written, fetches, otherMain>>

\* main: df_fast = fetch_fast(tickers); df = df_fast.copy()
SuperFetchFast ==
    /\ pc = "fetch_fast"
    /\ LET r == fetch_fast_SUPER(tickers, raw_price, raw_sd)
       IN  IF r.raised
              THEN /\ pc' = "raised"
                   /\ error' = [raised |-> "AttributeError", names |-> {}]
                   /\ UNCHANGED result_rows
           ELSE /\ pc' = IF slow THEN "slow" ELSE "write"
                /\ result_rows' = r.rows
                /\ UNCHANGED error
    /\ fetches' = fetches + (IF NonBlank(tickers) = <<>> THEN 0 ELSE 1)
    /\ UNCHANGED <<tickers, variant, raw_price, raw_sd, workbook, loaded, slow,
                   raw_cal, written, otherMain>>

\* main, args.slow: df_slow = fetch_slow(tickers).  The module defines no
\* fetch_slow (html_fetch_slow_fields is defined, twice, and never called),
\* so the call raises NameError and nothing in main catches it
SuperSlow ==
    /\ pc = "slow"
    /\ pc' = "raised"
    /\ error' = [raised |-> "NameError", names |-> {"fetch_slow"}]
    /\ UNCHANGED <<tickers, result_rows, variant, raw_price, raw_sd, workbook,
                   loaded, slow, raw_cal, written, fetches, otherMain>>

\* main: the missing columns are set to None and write_raw_excel(df[COLUMNS])
\* writes one sheet row per frame row and saves the workbook
SuperWrite ==
    /\ pc = "write"
    /\ result_rows' = EnsureColumns(result_rows)
    /\ written' = [saved |-> TRUE, rows |-> EnsureColumns(result_rows)]
    /\ pc' = "done"
    /\ UNCHANGED <<tickers, variant, raw_price, raw_sd, workbook, loaded, slow,
                   raw_cal, fetches, error, otherMain>>

NextSuper == SuperReadTickers \/ SuperFetchFast \/ SuperSlow \/ SuperWrite

\* the sheet TickerList with the column Ticker holding up to MaxRows cells,
\* and the layouts in which the workbook, the sheet or the column is missing
SuperWorkbooks ==
    LET usual(column) ==
            Sheet([c \in 1..SheetCols |->
                      IF c = 1 THEN TextCell(SuperHeader)
                      ELSE TextCell(<<"Name">>)],
                  1, SheetCols, 1, column)
        sample == <<TextCell(<<"A">>), NullCell>>
    IN  {usual(column) : column \in SeqsUpTo(MainCells, MaxRows)}
        \cup {Without(usual(sample), item) : item \in {"workbook", "sheet"}}
        \cup {Sheet([c \in 1..SheetCols |-> TextCell(<<"Name">>)],
                    1, SheetCols, 1, sample)}

InitSuper ==
    /\ script = "live_session_SUPER"
    /\ variant = "SUPER"
    /\ pc = "read_tickers"
    /\ workbook \in SuperWorkbooks
    /\ slow \in BOOLEAN
    /\ raw_price \in MainResponses
    /\ raw_sd \in MainResponses
    /\ raw_cal = <<>>
    /\ tickers = <<>> /\ result_rows = <<>>
    /\ loaded = <<>> /\ written = NoOutput /\ fetches = 0 /\ error = NoError
    /\ IdleSA /\ IdleU /\ IdleTP /\ IdleXL

SpecSuper == InitSuper /\ [][NextSuper]_vars

\* the run has ended after its FAST fetch returned
EndedAfterFast ==
    /\ pc \in {"raised", "done"}
    /\ error.raised \notin {"FileNotFoundError", "ValueError", "AttributeError"}

\* C24: live_session_SUPER main with --slow: after the FAST fetch the run
\* also refreshes Beta, 1YT, Ddate, EarningDate and RepDiv, aligns them row
\* by row with the input tickers (duplicates preserved), reaches the write
\* stage and produces the output workbook: a --slow run whose FAST fetch
\* returned ends with a saved workbook of one row per input ticker.
C24_SlowRunWrites ==
    (script = "live_session_SUPER" /\ slow /\ EndedAfterFast) =>
        /\ pc = "done" /\ written.saved
        /\ Len(written.rows) = Len(tickers)
        /\ \A i \in DOMAIN written.rows :
              written.rows[i]["Ticker"] = Str(tickers[i])

\* no --slow run ever saves the output workbook
C24_SlowNeverWrites ==
    (script = "live_session_SUPER" /\ slow) => ~written.saved

\* without --slow the run whose FAST fetch returned saves the workbook, the
\* slow columns None
C24_FastRunWrites ==
    (script = "live_session_SUPER" /\ ~slow /\ EndedAfterFast) =>
        /\ pc = "done" /\ written.saved
        /\ \A i \in DOMAIN written.rows : \A col \in SLOW_COLS :
              written.rows[i][col] = None

-----------------------------------------------------------------------------
(* tableloader_First.py / yableloader.py: atomic_save(wb, final_path)       *)

\* most blocks wb.save writes for a workbook
MaxBlocks == 3

Blocks == {"x", "y"}

\* a file: whether it exists and the blocks written to it so far
NoFile == [exists |-> FALSE, blocks |-> <<>>]
File(blocks) == [exists |-> TRUE, blocks |-> blocks]

\* NamedTemporaryFile(dir=path, suffix=".tmp", delete=False): an empty file
\* in the directory of final_path, closed at the end of the with block
CreateTemp ==
    /\ pc = "create_tmp"
    /\ files' = [files EXCEPT !.tmp = File(<<>>)]
    /\ pc' = "save"
    /\ UNCHANGED <<script, book, sheet, tbl_ref, last_deleted_entry, ops, otherXL>>

\* the directory is missing or not writable: no file is created
CreateTempRaises ==
    /\ pc = "create_tmp"
    /\ pc' = "raised"
    /\ UNCHANGED <<script, varsXL, otherXL>>

\* a save that writes the workbook straight into final_path
SaveBlock_InPlace ==
    /\ pc = "save"
    /\ LET n == Len(files.tmp.blocks) + 1
       IN  /\ n <= Len(book)
           /\ files' = [files EXCEPT
                          !.final = File(SubSeq(book, 1, n)),
                          !.tmp = File(SubSeq(book, 1, n))]
           /\ pc' = IF n = Len(book) THEN "replace" ELSE "save"
    /\ UNCHANGED <<script, book, sheet, tbl_ref, last_deleted_entry, ops, otherXL>>

\* wb.save(tmp_path) writes the next block of the workbook to the temporary
\* file; it returns after the last one
SaveBlock ==
    /\ pc = "save"
    /\ Len(files.tmp.blocks) < Len(book)
    /\ files' = [files EXCEPT
                   !.tmp.blocks = Append(@, book[Len(files.tmp.blocks) + 1])]
    /\ pc' = IF Len(files.tmp.blocks) + 1 = Len(book) THEN "replace" ELSE "save"
    /\ UNCHANGED <<script, book, sheet, tbl_ref, last_deleted_entry, ops, otherXL>>

\* wb.save raises (disk full, invalid workbook): the temporary file stays as
\* far as it was written and os.replace is not reached
SaveRaises ==
    /\ pc = "save"
    /\ pc' = "raised"
    /\ UNCHANGED <<script, varsXL, otherXL>>

\* os.replace(tmp_path, final_path): one rename within the directory
Replace ==
    /\ pc = "replace"
    /\ files' = [final |-> files.tmp, tmp |-> NoFile]
    /\ pc' = "done"
    /\ UNCHANGED <<script, book, sheet, tbl_ref, last_deleted_entry, ops, otherXL>>

\* os.replace raises (final_path locked by another program): nothing moves
ReplaceRaises ==
    /\ pc = "replace"
    /\ pc' = "raised"
    /\ UNCHANGED <<script, varsXL, otherXL>>

NextAtomicSave ==
    \/ CreateTemp \/ CreateTempRaises \/ SaveBlock \/ SaveRaises
    \/ Replace \/ ReplaceRaises

\* final_path as found (the workbook main loaded, or no file), no temporary
\* file, and the workbook to save
InitAtomicSave ==
    /\ script \in {"tableloader_First", "yableloader"}
    /\ pc = "create_tmp"
    /\ book \in SeqsUpTo(Blocks, MaxBlocks) \ {<<>>}
    /\ \E previous \in {NoFile} \cup {File(b) : b \in SeqsUpTo(Blocks, MaxBlocks - 1)} :
          /\ files = [final |-> previous, tmp |-> NoFile]
          /\ ops = [previous |-> previous]
    /\ sheet = <<>> /\ tbl_ref = 0 /\ last_deleted_entry = <<>>
    /\ tickers = <<>> /\ result_rows = <<>>
    /\ IdleLS /\ IdleSA /\ IdleU /\ IdleTP /\ IdleMain

SpecAtomicSave == InitAtomicSave /\ [][NextAtomicSave]_vars

AtomicSaveRuns == script \in {"tableloader_First", "yableloader"}

\* C25: atomic_save is atomic with respect to the target workbook: the new
\* workbook is first written completely to a temporary file and only then
\* moved over final_path in one replace step, so at every moment final_path
\* holds either the complete previous content or the complete new content;
\* if writing the temporary file (or anything else) fails, final_path is
\* left unchanged.
C25_AtomicSave ==
    /\ [](AtomicSaveRuns =>
            /\ files.final \in {ops.previous, File(book)}
            /\ pc = "replace" => files.tmp = File(book)
            /\ pc = "raised" => files.final = ops.previous
            /\ pc = "done" => files.final = File(book))
    /\ [][(AtomicSaveRuns /\ files.final' # files.final) =>
             /\ pc = "replace" /\ pc' = "done"
             /\ files.tmp = File(book)
             /\ files.final' = File(book)]_vars

\* C25 witness: the replace step has put a new workbook of three blocks over
\* a different previous one
C25_Witness ==
    /\ AtomicSaveRuns /\ pc = "done"
    /\ ops.previous.exists /\ ops.previous # File(book)
    /\ Len(book) = 3
    /\ files.final = File(book) /\ ~files.tmp.exists

\* C25 witness of the failure case: wb.save raised with the temporary file
\* partly written and final_path still holds the previous workbook
C25_SaveFailed ==
    /\ AtomicSaveRuns /\ pc = "raised"
    /\ files.tmp.exists /\ files.tmp.blocks # <<>> /\ files.tmp # File(book)
    /\ ops.previous.exists /\ files.final = ops.previous

-----------------------------------------------------------------------------
(* trades_gui_tabtrans.py: add_transaction / delete_transaction on the      *)
(* Excel table TabTrans of the sheet Transactions.  Every operation loads   *)
(* the workbook, changes it and saves it.  The header is row 1, so data row *)
(* i of the model is sheet row i + 1 and tbl_ref is the table's max_row.    *)

\* most data rows of the Transactions sheet, most operations of a session
MaxSheetRows == 3
MaxOps == 3

\* the data columns A..F and G, the first of the formula columns
TransCols == {"Date", "Prefix", "Ticker", "Number", "Price", "Act", "G"}

\* a date as the GUI validates it, and the cell values openpyxl reads for a
\* date cell: a date or a datetime on that day
Date(n) == Val("date", n, 1, "")
DateTime(n) == Val("datetime", n, 1, "")

\* a row of the sheet; Ticker is a cell as in the ticker column
TransRow(date_cell, ticker_cell, price_cell, act, formula) ==
    [c \in TransCols |->
        CASE c = "Date" -> date_cell
          [] c = "Prefix" -> Num(1, 1)
          [] c = "Ticker" -> ticker_cell
          [] c = "Number" -> Num(10, 1)
          [] c = "Price" -> price_cell
          [] c = "Act" -> act
          [] c = "G" -> formula]

\* the values the GUI passes after validation: a date, prefix 1..9, the
\* ticker stripped and upper-cased, a positive integer, a float
Given(day, ticker_s) ==
    [Date |-> Date(day), Prefix |-> Num(1, 1), Ticker |-> ticker_s,
     Number |-> Num(10, 1), Price |-> Num(5, 1)]

Givens == {Given(day, t) : day \in {1, 2}, t \in Symbols}

\* str.upper on the characters of a text
upper(chars) ==
    [i \in DOMAIN chars |->
        CASE chars[i] = "a" -> "A" [] chars[i] = "b" -> "B" [] OTHER -> chars[i]]

\* cell_date.date() for a datetime cell
CellDate(v) == IF v.k = "datetime" THEN Date(v.n) ELSE v

\* (cell_ticker or "").strip().upper()
TickerNorm(cell) ==
    IF cell.k # "str" THEN "" ELSE Join(upper(strip(cell.chars)))

\* float(cell_price) where it converts (a number, a numeric text), the cell
\* value itself where it raises
ToFloat(v) ==
    IF v.k = "str" /\ v.s = "5" THEN Num(5, 1) ELSE v

\* delete_transaction: the test that a table row is the one to delete
Matches(cells, given) ==
    /\ CellDate(cells["Date"]) = given.Date
    /\ cells["Prefix"] = given.Prefix
    /\ TickerNorm(cells["Ticker"]) = given.Ticker
    /\ cells["Number"] = given.Number
    /\ ToFloat(cells["Price"]) = given.Price

\* the first row of range(first_data_row, max_row + 1) that matches, as a
\* data row index; 0 when the loop ends without a match
TargetRow(rows, max_row, given) ==
    LET hit == {i \in DOMAIN rows : i + 1 <= max_row /\ Matches(rows[i], given)}
    IN  IF hit = {} THEN 0 ELSE CHOOSE i \in hit : \A j \in hit : i <= j

\* ws.delete_rows(idx, 1): the rows below move up
DeleteRow(rows, i) ==
    [j \in 1..(Len(rows) - 1) |-> IF j < i THEN rows[j] ELSE rows[j + 1]]

\* ws.cell(row, ...).value = v for the cells of data row i: the sheet grows
\* to that row, rows in between stay empty
BlankTransRow == [c \in TransCols |-> None]
SetRow(rows, i, cells) ==
    [j \in 1..(IF i > Len(rows) THEN i ELSE Len(rows)) |->
        IF j = i THEN cells
        ELSE IF j <= Len(rows) THEN rows[j] ELSE BlankTransRow]

\* a delete that leaves the table range as it was
NewMaxRow_Same(max_row) == max_row

\* delete_transaction: the table's max_row after the delete, the header at
\* least
NewMaxRow(max_row) == IF max_row - 1 < 1 THEN 1 ELSE max_row - 1

\* add_transaction: the values go to the row below the table's last row,
\* the formulas of G.. are copied from the last data row when there is one,
\* the table range grows by one row, the workbook is saved
add_transaction ==
    /\ pc = "gui" /\ script = "trades_gui_tabtrans"
    /\ ops.n < MaxOps /\ tbl_ref <= MaxSheetRows
    /\ \E given \in Givens :
          LET new_row == tbl_ref + 1
              formula == IF tbl_ref > 1 THEN sheet[tbl_ref - 1]["G"]
                         ELSE IF new_row - 1 <= Len(sheet) THEN sheet[new_row - 1]["G"]
                         ELSE None
              cells == TransRow(given.Date, TextCell(<<given.Ticker>>),
                                given.Price, Str("add"), formula)
          IN  /\ sheet' = SetRow(sheet, new_row - 1, cells)
              /\ tbl_ref' = new_row
              /\ ops' = [op |-> "add", given |-> given, sheet |-> sheet,
                         ref |-> tbl_ref, n |-> ops.n + 1]
    /\ UNCHANGED <<pc, script, files, book, last_deleted_entry, otherXL>>

\* delete_transaction, a row matches: the first such row is deleted from
\* the sheet, the table range shrinks by one row, the workbook is saved
delete_transaction ==
    /\ pc = "gui" /\ script = "trades_gui_tabtrans"
    /\ ops.n < MaxOps
    /\ \E given \in Givens :
          LET target == TargetRow(sheet, tbl_ref, given)
          IN  /\ target # 0
              /\ sheet' = DeleteRow(sheet, target)
              /\ tbl_ref' = NewMaxRow(tbl_ref)
              /\ ops' = [op |-> "delete", given |-> given, sheet |-> sheet,
                         ref |-> tbl_ref, n |-> ops.n + 1]
    /\ UNCHANGED <<pc, script, files, book, last_deleted_entry, otherXL>>

\* delete_transaction, no row matches: a delete_fail log entry, the warning
\* box, return False; the Transactions sheet is not saved
delete_transaction_NoMatch ==
    /\ pc = "gui" /\ script = "trades_gui_tabtrans"
    /\ ops.n < MaxOps
    /\ \E given \in Givens :
          /\ TargetRow(sheet, tbl_ref, given) = 0
          /\ ops' = [op |-> "delete_fail", given |-> given, sheet |-> sheet,
                     ref |-> tbl_ref, n |-> ops.n + 1]
    /\ UNCHANGED <<pc, script, files, book, sheet, tbl_ref, last_deleted_entry,
                   otherXL>>

\* load_workbook or wb.save raises (the file is missing or open in Excel):
\* the handler ends with the workbook on disk as it was
TabTransRaises ==
    /\ pc = "gui" /\ script = "trades_gui_tabtrans"
    /\ ops.n < MaxOps
    /\ ops' = [op |-> "raised", given |-> ops.given, sheet |-> sheet,
               ref |-> tbl_ref, n |-> ops.n + 1]
    /\ UNCHANGED <<pc, script, files, book, sheet, tbl_ref, last_deleted_entry,
                   otherXL>>

NextTabTrans ==
    \/ add_transaction \/ delete_transaction \/ delete_transaction_NoMatch
    \/ TabTransRaises

\* rows as the workbook may hold them: written by the GUI, or typed in Excel
\* (a date read back as datetime, a ticker in lower case or with blanks, a
\* price entered as text)
TabTransRows ==
    { TransRow(Date(1), TextCell(<<"A">>), Num(5, 1), Str("add"), Str("=E*D")),
      TransRow(DateTime(1), TextCell(<<"A">>), Num(5, 1), Str("add"), Str("=E*D")),
      TransRow(Date(1), TextCell(<<"a", " ">>), Num(5, 1), Str("add"), Str("=E*D")),
      TransRow(Date(1), TextCell(<<"B">>), Num(5, 1), Str("add"), Str("=E*D")),
      TransRow(Date(2), TextCell(<<"A">>), Str("5"), Str("add"), Str("=E*D")),
      TransRow(Date(2), TextCell(<<"A">>), None, Str("add"), Str("=E*D")) }

\* the workbook as found: the table covers the header and every data row
InitTabTrans ==
    /\ script = "trades_gui_tabtrans"
    /\ pc = "gui"
    /\ sheet \in SeqsUpTo(TabTransRows, MaxSheetRows - 1)
    /\ tbl_ref = Len(sheet) + 1
    /\ ops = [op |-> "", given |-> Given(1, "A"), sheet |-> sheet,
              ref |-> tbl_ref, n |-> 0]
    /\ files = <<>> /\ book = <<>> /\ last_deleted_entry = <<>>
    /\ tickers = <<>> /\ result_rows = <<>>
    /\ IdleLS /\ IdleSA /\ IdleU /\ IdleTP /\ IdleMain

SpecTabTrans == InitTabTrans /\ [][NextTabTrans]_vars

-----------------------------------------------------------------------------
(* trades_gui_tabtrans: properties *)

\* the five cells of a row are the given values as they stand
EqualValues(cells, given) ==
    /\ cells["Date"] = given.Date
    /\ cells["Prefix"] = given.Prefix
    /\ cells["Ticker"] = TextCell(<<given.Ticker>>)
    /\ cells["Number"] = given.Number
    /\ cells["Price"] = given.Price

\* the five cells of a row denote the given values: the cell's day is the
\* given date, its ticker text without surrounding blanks and in upper case
\* is the given ticker, its price read as a number is the given price
DenoteValues(cells, given) ==
    /\ cells["Date"].k \in {"date", "datetime"} /\ cells["Date"].n = given.Date.n
    /\ cells["Prefix"] = given.Prefix
    /\ cells["Ticker"].k = "str"
    /\ \E text \in Trimmed(cells["Ticker"].chars) :
          Join(upper(text)) = given.Ticker
    /\ cells["Number"] = given.Number
    /\ \/ cells["Price"] = given.Price
       \/ cells["Price"] = Str("5") /\ given.Price = Num(5, 1)

\* the statement of C26 for a reading Same(cells, given) of "the row's
\* values equal the given values"
TableFollowsRows(Same(_, _)) ==
    script = "trades_gui_tabtrans" =>
        LET before == ops.sheet
            same == {i \in DOMAIN before : Same(before[i], ops.given)}
        IN  /\ tbl_ref = Len(sheet) + 1
            /\ ops.op = "delete" =>
                  /\ same # {}
                  /\ \E i \in same :
                        /\ \A j \in same : i <= j
                        /\ sheet = DeleteRow(before, i)
                  /\ tbl_ref = ops.ref - 1
            /\ ops.op = "add" =>
                  /\ Len(sheet) = Len(before) + 1
                  /\ SubSeq(sheet, 1, Len(before)) = before
                  /\ EqualValues(sheet[Len(sheet)], ops.given)
                  /\ tbl_ref = ops.ref + 1
            /\ (ops.op \in {"delete", "delete_fail"} /\ same = {}) =>
                  sheet = before /\ tbl_ref = ops.ref
            /\ ops.op = "delete_fail" => same = {}

\* C26 (as stated): delete_transaction deletes exactly the first table row
\* whose (Date, Prefix, Ticker, Number, Price) equal the given values, keeps
\* the other rows in order and shrinks the table range by one row;
\* add_transaction writes the new row directly below the table's last row
\* and extends the range by one row; the table range is always the header
\* row plus exactly the current data rows; a delete with no matching row
\* leaves the rows and the range unchanged.
C26_DeleteFirstEqual == TableFollowsRows(EqualValues)

\* C26 (amended): the same, a row matching when its cells denote the given
\* values: the day of its date cell, its ticker stripped and upper-cased,
\* its price read as a number.
C26_DeleteFirstMatching == TableFollowsRows(DenoteValues)

\* C26 witness: a delete removed the first of two matching rows, which was
\* not the first row of the table, after an add
C26_Witness ==
    /\ script = "trades_gui_tabtrans" /\ ops.op = "delete" /\ ops.n >= 2
    /\ Len(ops.sheet) = 3 /\ Len(sheet) = 2 /\ tbl_ref = 3
    /\ ~DenoteValues(ops.sheet[1], ops.given)
    /\ DenoteValues(ops.sheet[2], ops.given)
    /\ DenoteValues(ops.sheet[3], ops.given)
    /\ sheet = <<ops.sheet[1], ops.sheet[3]>>

-----------------------------------------------------------------------------
(* trades_extended_gui.py: append_transaction, delete_matching_transaction  *)
(* and undo_last_delete on the sheet Transactions (no table, six columns).  *)
(* The workbook stays loaded; every transaction saves and reloads it.       *)

SixCols == TransCols \ {"G"}

\* str(v) for the value of an Act cell, a text or None
PyStr(v) == IF v.k = "none" THEN Str("None") ELSE v

\* append_transaction: the cell values written for an entry: the date as it
\* is, int(prefix), str(ticker), int(number), float(price), str(act)
Typed(entry) ==
    [c \in TransCols |->
        CASE c = "Price" -> ToFloat(entry[c])
          [] c = "Act" -> PyStr(entry[c])
          [] c = "G" -> None
          [] OTHER -> entry[c]]

\* every cell of columns 1..6 is "" or None
IsBlankRow(cells) ==
    \A c \in SixCols :
        cells[c].k = "none" \/ (cells[c].k = "str" /\ cells[c] = Str(""))

\* the rows without the blank rows at their end
RECURSIVE DropTrailingBlanks(_)
DropTrailingBlanks(rows) ==
    IF rows # <<>> /\ IsBlankRow(rows[Len(rows)])
       THEN DropTrailingBlanks(SubSeq(rows, 1, Len(rows) - 1))
    ELSE rows

\* reload_workbook: wb.save, load_workbook.  A cleared row at the end of the
\* sheet is read back when one of its cells kept a style (a date format)
\* and is gone otherwise
Reload(rows, styled) == IF styled THEN rows ELSE DropTrailingBlanks(rows)

\* delete_matching_transaction: the match test; the ticker cell is compared
\* as it is
MatchesExtended(cells, given) ==
    /\ CellDate(cells["Date"]) = given.Date
    /\ cells["Prefix"] = given.Prefix
    /\ cells["Ticker"] = TextCell(<<given.Ticker>>)
    /\ cells["Number"] = given.Number
    /\ ToFloat(cells["Price"]) = given.Price

\* the first matching row of range(2, max_row + 1) as a data row index, 0
\* when there is none
TargetExtended(rows, given) ==
    LET hit == {i \in DOMAIN rows : MatchesExtended(rows[i], given)}
    IN  IF hit = {} THEN 0 ELSE CHOOSE i \in hit : \A j \in hit : i <= j

\* the rows from target up to the last used row move up by one, the last
\* used row is cleared
ShiftUp(rows, target) ==
    LET last_used == Len(DropTrailingBlanks(rows))
    IN  [j \in DOMAIN rows |->
            IF j < target \/ j > last_used THEN rows[j]
            ELSE IF j < last_used THEN rows[j + 1]
            ELSE BlankTransRow]

\* the record of an operation
Op(name, given) ==
    [op |-> name, prev |-> ops.op, given |-> given, sheet |-> sheet,
     deleted |-> IF name = "delete" THEN sheet ELSE ops.deleted,
     ref |-> 0, n |-> ops.n + 1]

\* run_add: append_transaction(entry) with Act "add": the typed values go
\* to row max_row + 1, the workbook is saved and reloaded
run_add ==
    /\ pc = "gui" /\ script = "trades_extended_gui"
    /\ ops.n < MaxOps /\ Len(sheet) < MaxSheetRows
    /\ \E given \in Givens, styled \in BOOLEAN :
          /\ sheet' =
                Reload(Append(sheet,
                              Typed(TransRow(given.Date, TextCell(<<given.Ticker>>),
                                             given.Price, Str("add"), None))),
                       styled)
          /\ ops' = Op("add", given)
    /\ UNCHANGED <<pc, script, files, book, tbl_ref, last_deleted_entry, otherXL>>

\* delete_matching_transaction, a row matches: its six values go to the undo
\* slot, the rows below move up, the workbook is saved and reloaded
delete_matching_transaction ==
    /\ pc = "gui" /\ script = "trades_extended_gui"
    /\ ops.n < MaxOps
    /\ \E given \in Givens, styled \in BOOLEAN :
          LET target == TargetExtended(sheet, given)
          IN  /\ target # 0
              /\ last_deleted_entry' = [values |-> sheet[target], index |-> target + 1]
              /\ sheet' = Reload(ShiftUp(sheet, target), styled)
              /\ ops' = Op("delete", given)
    /\ UNCHANGED <<pc, script, files, book, tbl_ref, otherXL>>

\* delete_matching_transaction, no row matches: a delete_fail log entry and
\* the warning box
delete_matching_transaction_NoMatch ==
    /\ pc = "gui" /\ script = "trades_extended_gui"
    /\ ops.n < MaxOps
    /\ \E given \in Givens :
          /\ TargetExtended(sheet, given) = 0
          /\ ops' = Op("delete_fail", given)
    /\ UNCHANGED <<pc, script, files, book, sheet, tbl_ref, last_deleted_entry,
                   otherXL>>

\* undo_last_delete with a filled slot: append_transaction(values), the
\* slot is emptied
undo_last_delete ==
    /\ pc = "gui" /\ script = "trades_extended_gui"
    /\ ops.n < MaxOps /\ Len(sheet) < MaxSheetRows + 1
    /\ last_deleted_entry # <<>>
    /\ \E styled \in BOOLEAN :
          sheet' = Reload(Append(sheet, Typed(last_deleted_entry.values)), styled)
    /\ last_deleted_entry' = <<>>
    /\ ops' = Op("undo", ops.given)
    /\ UNCHANGED <<pc, script, files, book, tbl_ref, otherXL>>

\* undo_last_delete with an empty slot: the message box only
undo_last_delete_Empty ==
    /\ pc = "gui" /\ script = "trades_extended_gui"
    /\ ops.n < MaxOps
    /\ last_deleted_entry = <<>>
    /\ ops' = Op("undo_empty", ops.given)
    /\ UNCHANGED <<pc, script, files, book, sheet, tbl_ref, last_deleted_entry,
                   otherXL>>

NextExtended ==
    \/ run_add \/ delete_matching_transaction
    \/ delete_matching_transaction_NoMatch
    \/ undo_last_delete \/ undo_last_delete_Empty

\* rows as the workbook may hold them: written by the GUI (Act "add", a
\* float price), or typed in Excel (a date read back as datetime, no Act, a
\* price entered as text)
ExtendedRows ==
    { TransRow(Date(1), TextCell(<<"A">>), Num(5, 1), Str("add"), None),
      TransRow(DateTime(1), TextCell(<<"B">>), Num(5, 1), Str("add"), None),
      TransRow(DateTime(1), TextCell(<<"A">>), Num(5, 1), None, None),
      TransRow(Date(2), TextCell(<<"B">>), Str("5"), Str("add"), None) }

InitExtended ==
    /\ script = "trades_extended_gui"
    /\ pc = "gui"
    /\ sheet \in SeqsUpTo(ExtendedRows, MaxSheetRows - 1)
    /\ last_deleted_entry = <<>>
    /\ ops = [op |-> "", prev |-> "", given |-> Given(1, "A"), sheet |-> sheet,
              deleted |-> sheet, ref |-> 0, n |-> 0]
    /\ files = <<>> /\ book = <<>> /\ tbl_ref = 0
    /\ tickers = <<>> /\ result_rows = <<>>
    /\ IdleLS /\ IdleSA /\ IdleU /\ IdleTP /\ IdleMain

SpecExtended == InitExtended /\ [][NextExtended]_vars

-----------------------------------------------------------------------------
(* trades_extended_gui: properties *)

\* how often the sheet holds a transaction, all six columns
Count(rows, cells) ==
    Cardinality({i \in DOMAIN rows : \A c \in SixCols : rows[i][c] = cells[c]})

\* two sheets hold the same transactions: every row that is not blank
\* occurs as often in the one as in the other
SameTransactions(a, b) ==
    \A cells \in {a[i] : i \in DOMAIN a} \cup {b[i] : i \in DOMAIN b} :
        ~IsBlankRow(cells) => Count(a, cells) = Count(b, cells)

\* the statement of C27 for the deletes of rows that satisfy Rows
UndoRestores(Rows(_)) ==
    script = "trades_extended_gui" =>
        /\ (ops.op = "undo" /\ ops.prev = "delete"
                /\ \A i \in DOMAIN ops.deleted : Rows(ops.deleted[i])) =>
              SameTransactions(sheet, ops.deleted)
        /\ ops.op = "undo" => last_deleted_entry = <<>>
        /\ ops.op = "delete" =>
              /\ last_deleted_entry # <<>>
              /\ ops.sheet[TargetExtended(ops.sheet, ops.given)] =
                    last_deleted_entry.values
        /\ ops.op = "undo_empty" =>
              sheet = ops.sheet /\ last_deleted_entry = <<>>

AnyRow(cells) == TRUE

\* a row as the GUI writes it: Act a text, the price a number
GuiRow(cells) == cells["Act"].k = "str" /\ cells["Price"].k = "num"

\* C27: undo restores the last deleted transaction: after a successful
\* delete_matching_transaction followed by undo_last_delete the Transactions
\* sheet holds the same transactions (all six columns) as before the
\* delete; only the most recent delete can be undone, the undo slot is
\* empty afterwards, and an undo with an empty slot changes nothing.
C27_UndoRestores == UndoRestores(AnyRow)

\* C27 for sheets whose rows were all written by the GUI
C27_UndoRestoresGuiRows == UndoRestores(GuiRow)

====
